---- MODULE Spec2Model ----
(***************************************************************************)
(* Model of the numeric-token extraction of OcrApp:                        *)
(* extractNumbersFromText in src/utils/ocrProcessor.tsx.                   *)
(*                                                                         *)
(* A text is a sequence of characters; a character is a one-element        *)
(* string.  The characters outside ASCII are written by name: "deg" is the *)
(* degree mark, "EUR", "GBP", "JPY" and "INR" are the currency marks other *)
(* than "$".  Each of them is one UTF-16 code unit in the program, and one *)
(* element of the sequence here.  Positions inside operators are 1-based;  *)
(* IndexOf returns the 0-based offset the program computes.                *)
(***************************************************************************)
EXTENDS Integers, Sequences, FiniteSets, TLC

-----------------------------------------------------------------------------
(* Character classes of the regular expressions.                           *)

\* \d
Digit == {"0", "1", "2", "3", "4", "5", "6", "7", "8", "9"}

\* \s (the members a text of this model can hold)
Whitespace == {" ", "\n", "\t"}

\* [$€£¥₹]
CurrencySymbol == {"$", "EUR", "GBP", "JPY", "INR"}

\* [$€£¥₹%°]
Symbol == CurrencySymbol \cup {"%", "deg"}

\* the complement of [^\d\s.,\-+()$€£¥₹%°]
Preserved == Digit \cup Whitespace \cup Symbol \cup {".", ",", "-", "+", "(", ")"}

DigitValue ==
  ("0" :> 0) @@ ("1" :> 1) @@ ("2" :> 2) @@ ("3" :> 3) @@ ("4" :> 4) @@
  ("5" :> 5) @@ ("6" :> 6) @@ ("7" :> 7) @@ ("8" :> 8) @@ ("9" :> 9)

-----------------------------------------------------------------------------
(* String primitives.                                                      *)

Min(S) == CHOOSE x \in S : \A y \in S : x <= y

IsDigitAt(s, i) == i >= 1 /\ i <= Len(s) /\ s[i] \in Digit

IsCharAt(s, i, set) == i >= 1 /\ i <= Len(s) /\ s[i] \in set

\* the first position at or after i that holds no digit (Len(s) + 1 if none)
DigitRunEnd(s, i) ==
  Min({j \in i..(Len(s) + 1) : ~IsDigitAt(s, j)})

\* the first position at or after i that holds no whitespace: \s* from i
SkipWhitespace(s, i) ==
  Min({j \in i..(Len(s) + 1) : ~IsCharAt(s, j, Whitespace)})

\* \b before position i.  The word characters of a cleaned text are its
\* digits: the cleaning leaves no letter and no underscore.
WordBoundary(s, i) == IsDigitAt(s, i - 1) # IsDigitAt(s, i)

\* s.replace(/[^...]/g, r) for a class given by the characters it keeps
KeepOnly(s, keep) == SelectSeq(s, LAMBDA c : c \in keep)

\* String.prototype.trim
Trim(s) ==
  LET idx == {i \in 1..Len(s) : s[i] \notin Whitespace}
  IN  IF idx = {} THEN <<>>
      ELSE SubSeq(s, Min(idx), CHOOSE i \in idx : \A j \in idx : j <= i)

\* String.prototype.indexOf: the 0-based offset of the first occurrence, or -1
IndexOf(s, sub) ==
  LET at == {i \in 1..(Len(s) - Len(sub) + 1) : SubSeq(s, i, i + Len(sub) - 1) = sub}
  IN  IF Len(sub) = 0 THEN 0
      ELSE IF at = {} THEN -1
      ELSE Min(at) - 1

\* s.replace(/\s+/g, ' '): every maximal run of whitespace becomes one space
CollapseWhitespace(s) ==
  LET first == {i \in 1..Len(s) : s[i] \notin Whitespace \/ ~IsCharAt(s, i - 1, Whitespace)}
      nth(k) == CHOOSE i \in first : Cardinality({j \in first : j <= i}) = k
  IN  [k \in 1..Cardinality(first) |-> IF s[nth(k)] \in Whitespace THEN " " ELSE s[nth(k)]]

\* text.replace(/[^\d\s.,\-+()$€£¥₹%°]/g, ' ').replace(/\s+/g, ' ').trim()
CleanText(t) ==
  Trim(CollapseWhitespace([i \in 1..Len(t) |-> IF t[i] \in Preserved THEN t[i] ELSE " "]))

-----------------------------------------------------------------------------
(* The regular expressions of the pattern list.  Each Match operator takes *)
(* a text s and a start position i and returns the position after the      *)
(* match the backtracking matcher finds from i, or 0 when there is none.   *)

\* (?:[seps]\d{3})* from p, greedy
RECURSIVE GroupsEnd(_, _, _)
GroupsEnd(s, p, seps) ==
  IF /\ IsCharAt(s, p, seps)
     /\ IsDigitAt(s, p + 1) /\ IsDigitAt(s, p + 2) /\ IsDigitAt(s, p + 3)
  THEN GroupsEnd(s, p + 4, seps)
  ELSE p

\* (?:[seps]\d{1,maxDigits})? from p, greedy, nothing required after it
OptionalFraction(s, p, seps, maxDigits) ==
  IF IsCharAt(s, p, seps) /\ IsDigitAt(s, p + 1)
  THEN Min({DigitRunEnd(s, p + 1), p + 1 + maxDigits})
  ELSE p

\* (?:[seps]\d+)? from p, greedy
OptionalDigits(s, p, seps) ==
  IF IsCharAt(s, p, seps) /\ IsDigitAt(s, p + 1)
  THEN DigitRunEnd(s, p + 1)
  ELSE p

\* /[$€£¥₹]\s*\d{1,3}(?:[,.']\d{3})*(?:[.,]\d{1,4})?/gi
\* Nothing is required after \d{1,3}, so the greedy choice is never undone.
MatchCurrency(s, i) ==
  IF ~IsCharAt(s, i, CurrencySymbol) THEN 0
  ELSE LET j == SkipWhitespace(s, i + 1)
       IN  IF ~IsDigitAt(s, j) THEN 0
           ELSE LET d == Min({DigitRunEnd(s, j), j + 3})
                    g == GroupsEnd(s, d, {",", ".", "'"})
                IN  OptionalFraction(s, g, {".", ","}, 4)

\* \d+(?:\.\d+)?\s*<mark>: the mark must follow the whole digit run (and the
\* whole fraction when there is one); every shorter choice of \d+ leaves a
\* digit where whitespace or the mark is required.
MatchMarked(s, i, mark) ==
  IF ~IsDigitAt(s, i) THEN 0
  ELSE LET k == OptionalDigits(s, DigitRunEnd(s, i), {"."})
           w == SkipWhitespace(s, k)
       IN  IF IsCharAt(s, w, {mark}) THEN w + 1 ELSE 0

\* /\d+(?:\.\d+)?\s*%/g
MatchPercentages(s, i) == MatchMarked(s, i, "%")

\* /\d+(?:\.\d+)?\s*°[CF]?/g
MatchTemperature(s, i) ==
  LET e == MatchMarked(s, i, "deg")
  IN  IF e > 0 /\ IsCharAt(s, e, {"C", "F"}) THEN e + 1 ELSE e

\* \b\d{1,3}(?:<group>\d{3})+(?:<decimal>\d{1,4})?\b
\* The leading run must be the whole digit run (a group separator follows
\* it).  With G the end of the longest chain of groups: the fraction is
\* taken when its digit run has at most four digits; else the match ends
\* at G when no digit follows; else the last group is given back, and the
\* match ends before its separator.
MatchGrouped(s, i, group, decimal) ==
  IF ~(IsDigitAt(s, i) /\ WordBoundary(s, i)) THEN 0
  ELSE LET r == DigitRunEnd(s, i)
           G == GroupsEnd(s, r, {group})
       IN  IF r - i > 3 \/ G = r THEN 0
           ELSE IF /\ IsCharAt(s, G, {decimal}) /\ IsDigitAt(s, G + 1)
                   /\ DigitRunEnd(s, G + 1) - (G + 1) <= 4
                THEN DigitRunEnd(s, G + 1)
           ELSE IF ~IsDigitAt(s, G) THEN G
           ELSE IF G - 4 > r THEN G - 4
           ELSE 0

\* /\b\d{1,3}(?:,\d{3})+(?:\.\d{1,4})?\b/g
MatchThousandsUS(s, i) == MatchGrouped(s, i, ",", ".")

\* /\b\d{1,3}(?:\.\d{3})+(?:,\d{1,4})?\b/g
MatchThousandsEU(s, i) == MatchGrouped(s, i, ".", ",")

\* /\b\d*\.\d+\b/g: from the start of a digit run, or from a "." that
\* follows a digit (\b holds there and \d* matches nothing)
MatchDecimal(s, i) ==
  IF IsDigitAt(s, i) /\ WordBoundary(s, i)
  THEN LET r == DigitRunEnd(s, i)
       IN  IF IsCharAt(s, r, {"."}) /\ IsDigitAt(s, r + 1)
           THEN DigitRunEnd(s, r + 1) ELSE 0
  ELSE IF IsCharAt(s, i, {"."}) /\ WordBoundary(s, i) /\ IsDigitAt(s, i + 1)
  THEN DigitRunEnd(s, i + 1)
  ELSE 0

\* /\b\d{4,}\b/g
MatchLargeWhole(s, i) ==
  IF IsDigitAt(s, i) /\ WordBoundary(s, i) /\ DigitRunEnd(s, i) - i >= 4
  THEN DigitRunEnd(s, i) ELSE 0

\* /\b\d{1,3}\b/g: MatchMedium with single digits let in
MatchMediumFromOne(s, i) ==
  IF IsDigitAt(s, i) /\ WordBoundary(s, i) /\ DigitRunEnd(s, i) - i \in 1..3
  THEN DigitRunEnd(s, i) ELSE 0

\* /\b\d{2,3}\b/g
MatchMedium(s, i) ==
  IF IsDigitAt(s, i) /\ WordBoundary(s, i) /\ DigitRunEnd(s, i) - i \in 2..3
  THEN DigitRunEnd(s, i) ELSE 0

\* /\(\s*\d+(?:[.,]\d+)?\s*\)/g
MatchParentheses(s, i) ==
  IF ~IsCharAt(s, i, {"("}) THEN 0
  ELSE LET j == SkipWhitespace(s, i + 1)
       IN  IF ~IsDigitAt(s, j) THEN 0
           ELSE LET k == OptionalDigits(s, DigitRunEnd(s, j), {".", ","})
                    w == SkipWhitespace(s, k)
                IN  IF IsCharAt(s, w, {")"}) THEN w + 1 ELSE 0

\* /[+-]\s*\d+(?:[.,]\d+)?/g
MatchSigned(s, i) ==
  IF ~IsCharAt(s, i, {"+", "-"}) THEN 0
  ELSE LET j == SkipWhitespace(s, i + 1)
       IN  IF ~IsDigitAt(s, j) THEN 0
           ELSE OptionalDigits(s, DigitRunEnd(s, j), {".", ","})

\* the pattern list, in its declaration order
patterns == <<
  [name |-> "Currency",                  priority |-> 1],
  [name |-> "Percentages",               priority |-> 1],
  [name |-> "Temperature",               priority |-> 1],
  [name |-> "Thousand separators (US)",  priority |-> 2],
  [name |-> "Thousand separators (EU)",  priority |-> 2],
  [name |-> "Decimal numbers",           priority |-> 3],
  [name |-> "Large whole numbers",       priority |-> 3],
  [name |-> "Medium numbers",            priority |-> 4],
  [name |-> "Numbers in parentheses",    priority |-> 2],
  [name |-> "Signed numbers",            priority |-> 2] >>

\* the regex of the pattern called name, applied at position i of s
RegexMatch(name, s, i) ==
  CASE name = "Currency"                 -> MatchCurrency(s, i)
    [] name = "Percentages"              -> MatchPercentages(s, i)
    [] name = "Temperature"              -> MatchTemperature(s, i)
    [] name = "Thousand separators (US)" -> MatchThousandsUS(s, i)
    [] name = "Thousand separators (EU)" -> MatchThousandsEU(s, i)
    [] name = "Decimal numbers"          -> MatchDecimal(s, i)
    [] name = "Large whole numbers"      -> MatchLargeWhole(s, i)
    [] name = "Medium numbers"           -> MatchMedium(s, i)
    [] name = "Numbers in parentheses"   -> MatchParentheses(s, i)
    [] name = "Signed numbers"           -> MatchSigned(s, i)

\* cleanText.match(regex) with the g flag: the matches found scanning s
\* from position pos, each taken at the leftmost position that matches and
\* the scan resumed after it.  A match is [start, text].
RECURSIVE MatchAll(_, _, _)
MatchAll(name, s, pos) ==
  IF pos > Len(s) THEN <<>>
  ELSE LET e == RegexMatch(name, s, pos)
       IN  IF e > 0
           THEN <<[start |-> pos - 1, text |-> SubSeq(s, pos, e - 1)]>>
                  \o MatchAll(name, s, e)
           ELSE MatchAll(name, s, pos + 1)

-----------------------------------------------------------------------------
(* The handling of one match: the body of matches.forEach.                 *)

\* results.slice(0, 20)
MaxResults == 20

\* num <= 5 && priority >= 4
SmallNumberLimit == 5
LowPriority == 4

HasDigit(s) == \E i \in 1..Len(s) : s[i] \in Digit

HasSymbol(s) == \E i \in 1..Len(s) : s[i] \in Symbol

\* parseInt of a string of digits
RECURSIVE ParseInt(_)
ParseInt(ds) ==
  IF ds = <<>> THEN 0
  ELSE 10 * ParseInt(SubSeq(ds, 1, Len(ds) - 1)) + DigitValue[ds[Len(ds)]]

\* StripParentheses that strips nothing
KeepParentheses(s) == s

\* cleaned.startsWith('(') && cleaned.endsWith(')') ? cleaned.slice(1, -1).trim()
StripParentheses(s) ==
  IF Len(s) >= 1 /\ s[1] = "(" /\ s[Len(s)] = ")"
  THEN Trim(SubSeq(s, 2, Len(s) - 1))
  ELSE s

\* s.replace(/,(\d{3})/g, '$1'): a comma followed by three digits is
\* dropped and the scan resumes after the three digits
RECURSIVE RemoveGroupCommas(_)
RemoveGroupCommas(s) ==
  IF s = <<>> THEN <<>>
  ELSE IF s[1] = "," /\ IsDigitAt(s, 2) /\ IsDigitAt(s, 3) /\ IsDigitAt(s, 4)
       THEN SubSeq(s, 2, 4) \o RemoveGroupCommas(SubSeq(s, 5, Len(s)))
       ELSE <<s[1]>> \o RemoveGroupCommas(Tail(s))

\* s.replace(',', '.'): the first comma only
ReplaceFirstComma(s) ==
  LET at == {i \in 1..Len(s) : s[i] = ","}
  IN  IF at = {} THEN s ELSE [s EXCEPT ![Min(at)] = "."]

\* !isNaN(parseFloat(s)) && isFinite(parseFloat(s)): parseFloat reads the
\* longest numeric prefix after leading whitespace, and gives NaN when
\* there is none.  A text of this model is too short to read as Infinity.
ParsesAsNumber(s) ==
  LET p == SkipWhitespace(s, 1)
      q == IF IsCharAt(s, p, {"+", "-"}) THEN p + 1 ELSE p
  IN  IsDigitAt(s, q) \/ (IsCharAt(s, q, {"."}) /\ IsDigitAt(s, q + 1))

\* numericPart.replace(/,(\d{3})/g, '$1').replace(',', '.') of
\* numericPart = cleaned.replace(/[^\d.,\-+]/g, '')
TestNumber(cleaned) ==
  ReplaceFirstComma(RemoveGroupCommas(KeepOnly(cleaned, Digit \cup {".", ",", "-", "+"})))

\* a run of digits without its leading zeros
StripLeadingZeros(ds) ==
  LET nonzero == {i \in 1..Len(ds) : ds[i] # "0"}
  IN  IF nonzero = {} THEN <<>> ELSE SubSeq(ds, Min(nonzero), Len(ds))

\* a run of digits without its trailing zeros
StripTrailingZeros(ds) ==
  LET nonzero == {i \in 1..Len(ds) : ds[i] # "0"}
  IN  IF nonzero = {} THEN <<>>
      ELSE SubSeq(ds, 1, CHOOSE i \in nonzero : \A j \in nonzero : j <= i)

\* a decimal value: the digits before the point without leading zeros, the
\* digits after it without trailing zeros, and the sign
DecimalValue(negative, integerDigits, fractionDigits) ==
  LET int  == StripLeadingZeros(integerDigits)
      frac == StripTrailingZeros(fractionDigits)
  IN  [negative |-> negative /\ (int # <<>> \/ frac # <<>>),
       integer  |-> int,
       fraction |-> frac]

\* parseFloat(s) of an s that ParsesAsNumber: the value of the longest
\* prefix sign? digits ('.' digits)? after leading whitespace
ParseFloat(s) ==
  LET p == SkipWhitespace(s, 1)
      q == IF IsCharAt(s, p, {"+", "-"}) THEN p + 1 ELSE p
      r == IF IsDigitAt(s, q) THEN DigitRunEnd(s, q) ELSE q
      e == IF IsCharAt(s, r, {"."}) /\ IsDigitAt(s, r + 1) THEN DigitRunEnd(s, r + 1) ELSE r
  IN  DecimalValue(IsCharAt(s, p, {"-"}),
                   SubSeq(s, q, r - 1),
                   IF e > r THEN SubSeq(s, r + 1, e - 1) ELSE <<>>)

\* IsSkippedSmallNumber with the test on the priority left out
IsSkippedSmallNumberAnyPriority(cleaned, priority) ==
  LET digits == SelectSeq(cleaned, LAMBDA c : c \in Digit)
  IN  /\ Len(digits) \in 1..2
      /\ ParseInt(digits) <= SmallNumberLimit

\* /^\d{1,2}$/.test(digits) && parseInt(digits) <= 5 && priority >= 4
IsSkippedSmallNumber(cleaned, priority) ==
  LET digits == KeepOnly(cleaned, Digit)
  IN  /\ Len(digits) \in 1..2
      /\ ParseInt(digits) <= SmallNumberLimit
      /\ priority >= LowPriority

\* the numeric validation
IsValidNumber(cleaned) ==
  LET numericPart == KeepOnly(cleaned, Digit \cup {".", ",", "-", "+"})
  IN  /\ Len(numericPart) > 0
      /\ ParsesAsNumber(ReplaceFirstComma(RemoveGroupCommas(numericPart)))

\* foundNumbers is a Map<string, number>: here the sequence of its entries
\* [key, priority] in insertion order, which is the order of its keys().
HasKey(found, key) == \E i \in 1..Len(found) : found[i].key = key

GetPriority(found, key) ==
  (CHOOSE e \in {found[i] : i \in 1..Len(found)} : e.key = key).priority

Keys(found) == [i \in 1..Len(found) |-> found[i].key]

\* Store with the test on the key left out: every match adds an entry
StoreAppending(found, key, priority) ==
  Append(found, [key |-> key, priority |-> priority])

\* Store with the test on the priority left out: the last match wins
StoreOverwriting(found, key, priority) ==
  IF \E i \in 1..Len(found) : found[i].key = key
  THEN [i \in 1..Len(found) |->
          IF found[i].key = key THEN [key |-> key, priority |-> priority]
          ELSE found[i]]
  ELSE Append(found, [key |-> key, priority |-> priority])

\* if (!foundNumbers.has(cleaned) || foundNumbers.get(cleaned) > priority)
\*   foundNumbers.set(cleaned, priority)
\* Map.set on a key already present keeps the key's place.
Store(found, key, priority) ==
  IF ~HasKey(found, key)
  THEN Append(found, [key |-> key, priority |-> priority])
  ELSE IF GetPriority(found, key) > priority
  THEN [i \in 1..Len(found) |->
          IF found[i].key = key THEN [key |-> key, priority |-> priority]
          ELSE found[i]]
  ELSE found

\* the token without its symbol: the numeric part the validation tests
TokenOfNumericPart(match) ==
  KeepOnly(StripParentheses(Trim(match)), Digit \cup {".", ",", "-", "+"})

\* the token a match is stored under
TokenOf(match) ==
  IF HasSymbol(match) THEN Trim(match) ELSE StripParentheses(Trim(match))

\* the callback of matches.forEach
ProcessMatch(found, match, priority) ==
  LET cleaned == StripParentheses(Trim(match))
  IN  IF ~HasDigit(cleaned) THEN found
      ELSE IF IsSkippedSmallNumber(cleaned, priority) THEN found
      ELSE IF ~IsValidNumber(cleaned) THEN found
      ELSE Store(found, TokenOf(match), priority)

-----------------------------------------------------------------------------
(* The ranking: Array.from(foundNumbers.keys()).sort(...).slice(0, 20)     *)

\* a.replace(/[^\d.,]/g, '')
NumericCore(token) == KeepOnly(token, Digit \cup {".", ","})

\* Compare with the priorities subtracted the other way round
CompareDescending(found, t, a, b) ==
  IF GetPriority(found, a) # GetPriority(found, b)
  THEN GetPriority(found, b) - GetPriority(found, a)
  ELSE IndexOf(t, NumericCore(a)) - IndexOf(t, NumericCore(b))

\* Compare with the test on the priorities left out
CompareByIndexOnly(found, t, a, b) ==
  IndexOf(t, NumericCore(a)) - IndexOf(t, NumericCore(b))

\* the comparator of the sort
Compare(found, t, a, b) ==
  IF GetPriority(found, a) # GetPriority(found, b)
  THEN GetPriority(found, a) - GetPriority(found, b)
  ELSE IndexOf(t, NumericCore(a)) - IndexOf(t, NumericCore(b))

\* Array.from(foundNumbers.keys()).sort(Compare).  Compare orders the keys
\* by the pair (priority, index), so it is a consistent comparator, and
\* Array.prototype.sort is stable: the key at insertion position i comes
\* after exactly the keys that compare less, and the keys that compare
\* equal and were inserted before it.
Sorted(found, t) ==
  LET keys == Keys(found)
      n == Len(keys)
      Before(j, i) ==
        LET c == Compare(found, t, keys[j], keys[i])
        IN  c < 0 \/ (c = 0 /\ j < i)
      rank == [i \in 1..n |-> 1 + Cardinality({j \in 1..n : Before(j, i)})]
  IN  [r \in 1..n |-> keys[CHOOSE i \in 1..n : rank[i] = r]]

\* Slice with the limit left out
SliceUnlimited(seq, n) == seq

\* seq.slice(0, n)
Slice(seq, n) == SubSeq(seq, 1, IF Len(seq) < n THEN Len(seq) ELSE n)

-----------------------------------------------------------------------------
(* The call as a function of its text: what a call that runs alone, from   *)
(* its entry to its return, gives back.                                    *)

\* matches.forEach(callback)
RECURSIVE ProcessMatches(_, _, _)
ProcessMatches(found, ms, priority) ==
  IF ms = <<>> THEN found
  ELSE ProcessMatches(ProcessMatch(found, Head(ms).text, priority), Tail(ms), priority)

\* patterns.forEach from the k-th pattern on
RECURSIVE ApplyPatterns(_, _, _)
ApplyPatterns(found, clean, k) ==
  IF k > Len(patterns) THEN found
  ELSE ApplyPatterns(ProcessMatches(found, MatchAll(patterns[k].name, clean, 1),
                                    patterns[k].priority),
                     clean, k + 1)

extractNumbersFromText(t) ==
  IF Len(Trim(t)) = 0 THEN <<>>
  ELSE Slice(Sorted(ApplyPatterns(<<>>, CleanText(t), 1), t), MaxResults)

-----------------------------------------------------------------------------
(* The texts extractNumbersFromText is applied to.                         *)

\* 'Total: 42 items at 15.75% discount'
TextDiscount ==
  <<"T", "o", "t", "a", "l", ":", " ", "4", "2", " ", "i", "t", "e", "m",
    "s", " ", "a", "t", " ", "1", "5", ".", "7", "5", "%", " ", "d", "i",
    "s", "c", "o", "u", "n", "t">>

\* '1000 and 1,000 items'
TextThousand ==
  <<"1", "0", "0", "0", " ", "a", "n", "d", " ", "1", ",", "0", "0", "0",
    " ", "i", "t", "e", "m", "s">>

\* 'a 1 b 2 c 3'
TextSingleDigits ==
  <<"a", " ", "1", " ", "b", " ", "2", " ", "c", " ", "3">>

\* '$1,234.56'
TextCurrency ==
  <<"$", "1", ",", "2", "3", "4", ".", "5", "6">>

\* '1256 34 56'
TextRepeatedDigits ==
  <<"1", "2", "5", "6", " ", "3", "4", " ", "5", "6">>

\* '15 275'
TextShortThenLong ==
  <<"1", "5", " ", "2", "7", "5">>

\* '003 03'
TextZeroPadded ==
  <<"0", "0", "3", " ", "0", "3">>

\* '$3 2% +1 (2)'
TextSmallValues ==
  <<"$", "3", " ", "2", "%", " ", "+", "1", " ", "(", "2", ")">>

\* '1.234 (42)'
TextSharedTokens ==
  <<"1", ".", "2", "3", "4", " ", "(", "4", "2", ")">>

\* 'EUR1.234,56'
TextEuropean ==
  <<"EUR", "1", ".", "2", "3", "4", ",", "5", "6">>

\* '72degF'
TextTemperature ==
  <<"7", "2", "deg", "F">>

\* '$abc100'
TextLetters ==
  <<"$", "a", "b", "c", "1", "0", "0">>

\* '12  %'
TextSpacedPercent ==
  <<"1", "2", " ", " ", "%">>

\* '42 42 (42)'
TextRepeated ==
  <<"4", "2", " ", "4", "2", " ", "(", "4", "2", ")">>

ExampleTexts ==
  {TextRepeated,
   TextDiscount,
   TextThousand,
   TextSingleDigits,
   TextCurrency,
   TextRepeatedDigits,
   TextShortThenLong,
   TextZeroPadded,
   TextSmallValues,
   TextSharedTokens,
   TextEuropean,
   TextTemperature,
   TextLetters,
   TextSpacedPercent}

\* the characters of the texts enumerated in full, and their greatest length
Alphabet == {"0", "7", ".", ",", " ", "%", "$", "(", ")"}
MaxLen == 4

ShortTexts == UNION {[1..n -> Alphabet] : n \in 0..MaxLen}

\* the greatest number of numbers in a list '10 11 12 ...'
MaxListLen == 22

DigitChar == <<"0", "1", "2", "3", "4", "5", "6", "7", "8", "9">>

\* the text of the n numbers 10, 11, ..., 9 + n, separated by single spaces
NumberList(n) ==
  [i \in 1..(IF n = 0 THEN 0 ELSE 3 * n - 1) |->
     LET k == 10 + ((i - 1) \div 3)
     IN  CASE i % 3 = 1 -> DigitChar[(k \div 10) + 1]
           [] i % 3 = 2 -> DigitChar[(k % 10) + 1]
           [] OTHER     -> " "]

\* the text of the n percentages 10%, 11%, ..., (9 + n)%, separated by single spaces
PercentList(n) ==
  [i \in 1..(IF n = 0 THEN 0 ELSE 4 * n - 1) |->
     LET k == 10 + ((i - 1) \div 4)
     IN  CASE i % 4 = 1 -> DigitChar[(k \div 10) + 1]
           [] i % 4 = 2 -> DigitChar[(k % 10) + 1]
           [] i % 4 = 3 -> "%"
           [] OTHER     -> " "]

ListTexts == {NumberList(n) : n \in 0..MaxListLen} \cup {PercentList(n) : n \in 0..MaxListLen}

Texts == ExampleTexts \cup ShortTexts \cup ListTexts

-----------------------------------------------------------------------------
(* extractTextFromVisionResponse                                           *)

\* an absent property, or null
None == <<>>

\* a property with the value v
Some(v) == <<v>>

IsSome(o) == o # None

ValueOf(o) == o[1]

\* a text that is truthy: present and not ''
IsTruthyText(o) == IsSome(o) /\ ValueOf(o) # ""

\* the outcomes of a call
Pending == [outcome |-> "pending", value |-> None]

Returned(v) == [outcome |-> "returned", value |-> v]

Thrown(message) == [outcome |-> "thrown", value |-> Some(message)]

\* extractTextFromVisionResponse(visionResponse); its catch rethrows
extractTextFromVisionResponse(v) ==
  IF ~IsSome(v.responses) \/ Len(ValueOf(v.responses)) = 0
  THEN Returned(None)
  ELSE LET response == ValueOf(v.responses)[1]
       IN  IF IsSome(response.error)
           THEN Thrown("Vision API error: " \o ValueOf(response.error).message)
           ELSE IF /\ IsSome(response.fullTextAnnotation)
                   /\ IsTruthyText(ValueOf(response.fullTextAnnotation).text)
           THEN Returned(ValueOf(response.fullTextAnnotation).text)
           ELSE IF /\ IsSome(response.textAnnotations)
                   /\ Len(ValueOf(response.textAnnotations)) > 0
           THEN LET mainText == ValueOf(response.textAnnotations)[1].description
                IN  IF IsTruthyText(mainText) THEN Returned(mainText) ELSE Returned(None)
           ELSE Returned(None)

-----------------------------------------------------------------------------
(* One call of extractNumbersFromText(text), step by step.                 *)

VARIABLES
  text,          \* the argument
  pc,            \* where the call is
  cleanText,     \* const cleanText
  patternIndex,  \* the index in patterns of patterns.forEach
  matches,       \* the matches of the current pattern that matches.forEach has yet to visit
  foundNumbers,  \* const foundNumbers = new Map<string, number>()
  results,       \* the sorted keys
  output,        \* the returned list
  failedPatterns,  \* the indexes of the patterns whose try block raised an error
  history,       \* the calls that have returned, as [text, output], in the order of their return
  suspended,     \* the frames of the other calls in progress, when calls are interleaved
  visionResponse,  \* the argument of extractTextFromVisionResponse
  extractedText,   \* its outcome
  imageUri,      \* the argument of extractNumbersFromImage
  imagePc,       \* where the call of extractNumbersFromImage is
  base64Image,   \* const base64Image
  fetched,       \* what the fetch of callGoogleVisionAPI did, if it was called
  error,         \* the error its catch block has caught, if any
  imageResult,   \* its outcome
  cropBounds,    \* the argument of cropImageToRectangle, in hundredths of a pixel
  manipulation,  \* the call of manipulateAsync it has made, if any
  cropResult,    \* its outcome
  storage,       \* the item of AsyncStorage under STORAGE_KEY, if any
  now,           \* the clock that Date.now() reads, in milliseconds
  calls,         \* the calls of saveScanResult and deleteScanResult, in the order of their start
  cameraReady,   \* const [cameraReady, setCameraReady] = useState(false)
  isProcessing,  \* const [isProcessing, setIsProcessing] = useState(false)
  rendered,      \* the cameraReady and isProcessing of the render on screen
  invocations    \* the invocations of captureAndProcess, in the order of their arrival

\* the variables of a call of extractNumbersFromText
textVars == <<text, pc, cleanText, patternIndex, matches, foundNumbers, results, output,
              failedPatterns, history, suspended>>

\* the variables of a call of extractNumbersFromImage, its visionResponse and
\* extractedText apart
imageVars == <<imageUri, imagePc, base64Image, fetched, error, imageResult>>

\* the variables of a call of cropImageToRectangle
cropVars == <<cropBounds, manipulation, cropResult>>

\* the variables of the calls of storage.tsx
storageVars == <<storage, now, calls>>

\* the variables of CameraScreen
cameraVars == <<cameraReady, isProcessing, rendered, invocations>>

\* the variables that are no part of a call of extractNumbersFromText
elsewhere == <<visionResponse, extractedText, imageVars, cropVars, storageVars, cameraVars>>

vars == <<text, pc, cleanText, patternIndex, matches, foundNumbers, results, output,
          failedPatterns, history, suspended, elsewhere>>

\* no call of extractTextFromVisionResponse is under way
VisionIdle ==
  /\ visionResponse = [responses |-> None]
  /\ extractedText = Pending

\* no call of extractNumbersFromImage is under way
ImageIdle ==
  /\ imageUri = ""
  /\ imagePc = "idle"
  /\ base64Image = None
  /\ fetched = None
  /\ error = None
  /\ imageResult = Pending

\* no call of cropImageToRectangle is under way
CropIdle ==
  /\ cropBounds = [x |-> 0, y |-> 0, width |-> 0, height |-> 0]
  /\ manipulation = None
  /\ cropResult = Pending

\* no call of storage.tsx is under way
StorageIdle ==
  /\ storage = None
  /\ now = 0
  /\ calls = <<>>

\* CameraScreen as it is first rendered
CameraIdle ==
  /\ cameraReady = FALSE
  /\ isProcessing = FALSE
  /\ rendered = [cameraReady |-> FALSE, isProcessing |-> FALSE]
  /\ invocations = <<>>

\* nothing but extractNumbersFromText is under way
ElsewhereIdle ==
  /\ VisionIdle
  /\ ImageIdle
  /\ CropIdle
  /\ StorageIdle
  /\ CameraIdle

\* the locals of a call at its entry
InitLocals ==
  /\ pc = "entry"
  /\ cleanText = <<>>
  /\ patternIndex = 1
  /\ matches = <<>>
  /\ foundNumbers = <<>>
  /\ results = <<>>
  /\ output = <<>>
  /\ failedPatterns = {}

Init ==
  /\ text \in Texts
  /\ InitLocals
  /\ history = <<>>
  /\ suspended = <<>>
  /\ ElsewhereIdle

\* if (!text || text.trim().length === 0) return [];
ReturnEmpty ==
  /\ pc = "entry"
  /\ Len(Trim(text)) = 0
  /\ pc' = "done"
  /\ output' = <<>>
  /\ history' = Append(history, [text |-> text, output |-> output'])
  /\ UNCHANGED <<text, cleanText, patternIndex, matches, foundNumbers, results>>
  /\ UNCHANGED <<failedPatterns, suspended, elsewhere>>

\* Clean without its new Map(): one Map for all the calls
CleanKeepingMap ==
  /\ pc = "entry"
  /\ Len(Trim(text)) # 0
  /\ cleanText' = CleanText(text)
  /\ patternIndex' = 1
  /\ pc' = "patterns"
  /\ UNCHANGED <<text, matches, foundNumbers, results, output>>
  /\ UNCHANGED <<failedPatterns, history, suspended, elsewhere>>

\* const cleanText = ...; const foundNumbers = new Map()
Clean ==
  /\ pc = "entry"
  /\ Len(Trim(text)) # 0
  /\ cleanText' = CleanText(text)
  /\ foundNumbers' = <<>>
  /\ patternIndex' = 1
  /\ pc' = "patterns"
  /\ UNCHANGED <<text, matches, results, output>>
  /\ UNCHANGED <<failedPatterns, history, suspended, elsewhere>>

\* patterns.forEach: const matches = cleanText.match(regex);
\* if (matches && matches.length > 0) matches.forEach(...)
MatchPattern ==
  /\ pc = "patterns"
  /\ patternIndex <= Len(patterns)
  /\ LET found == MatchAll(patterns[patternIndex].name, cleanText, 1)
     IN  IF found = <<>>
         THEN /\ patternIndex' = patternIndex + 1
              /\ UNCHANGED <<pc, matches>>
         ELSE /\ matches' = found
              /\ pc' = "matches"
              /\ UNCHANGED patternIndex
  /\ UNCHANGED <<text, cleanText, foundNumbers, results, output>>
  /\ UNCHANGED <<failedPatterns, history, suspended, elsewhere>>

\* matches.forEach: the callback on the next match
ProcessNextMatch ==
  /\ pc = "matches"
  /\ matches # <<>>
  /\ foundNumbers' = ProcessMatch(foundNumbers, Head(matches).text,
                                  patterns[patternIndex].priority)
  /\ matches' = Tail(matches)
  /\ UNCHANGED <<text, pc, cleanText, patternIndex, results, output>>
  /\ UNCHANGED <<failedPatterns, history, suspended, elsewhere>>

\* the end of matches.forEach: on to the next pattern
NextPattern ==
  /\ pc = "matches"
  /\ matches = <<>>
  /\ patternIndex' = patternIndex + 1
  /\ pc' = "patterns"
  /\ UNCHANGED <<text, cleanText, matches, foundNumbers, results, output>>
  /\ UNCHANGED <<failedPatterns, history, suspended, elsewhere>>

\* const results = Array.from(foundNumbers.keys()).sort(...)
SortResults ==
  /\ pc = "patterns"
  /\ patternIndex > Len(patterns)
  /\ results' = Sorted(foundNumbers, text)
  /\ pc' = "sorted"
  /\ UNCHANGED <<text, cleanText, patternIndex, matches, foundNumbers, output>>
  /\ UNCHANGED <<failedPatterns, history, suspended, elsewhere>>

\* Return with an empty list of results raised as an error, as the caller
\* extractNumbersFromImage does ('No numbers found in the detected text')
ReturnOrThrow ==
  /\ pc = "sorted"
  /\ IF results = <<>>
     THEN pc' = "threw" /\ UNCHANGED <<output, history>>
     ELSE /\ pc' = "done"
          /\ output' = Slice(results, MaxResults)
          /\ history' = Append(history, [text |-> text, output |-> output'])
  /\ UNCHANGED <<text, cleanText, patternIndex, matches, foundNumbers, results>>
  /\ UNCHANGED <<failedPatterns, suspended, elsewhere>>

\* return results.slice(0, 20)
Return ==
  /\ pc = "sorted"
  /\ output' = Slice(results, MaxResults)
  /\ pc' = "done"
  /\ history' = Append(history, [text |-> text, output |-> output'])
  /\ UNCHANGED <<text, cleanText, patternIndex, matches, foundNumbers, results>>
  /\ UNCHANGED <<failedPatterns, suspended, elsewhere>>

Next ==
  \/ ReturnEmpty
  \/ Clean
  \/ MatchPattern
  \/ ProcessNextMatch
  \/ NextPattern
  \/ SortResults
  \/ Return

Spec == Init /\ [][Next]_vars

-----------------------------------------------------------------------------
(* A call in which the try block of a pattern raises an error.             *)

\* the greatest number of patterns that fail in one call
MaxFailures == 1

FailureTexts == ExampleTexts \cup {<<>>}

\* try { ... } catch (regexError) { console.warn(...) }: an error raised by
\* cleanText.match(regex), or by the callback of matches.forEach on the next
\* match, ends the turn of the pattern; what the callback has stored stays
PatternThrows ==
  /\ Cardinality(failedPatterns) < MaxFailures
  /\ \/ pc = "patterns" /\ patternIndex <= Len(patterns)
     \/ pc = "matches" /\ matches # <<>>
  /\ failedPatterns' = failedPatterns \cup {patternIndex}
  /\ matches' = <<>>
  /\ patternIndex' = patternIndex + 1
  /\ pc' = "patterns"
  /\ UNCHANGED <<text, cleanText, foundNumbers, results, output>>
  /\ UNCHANGED <<history, suspended, elsewhere>>

InitFailure ==
  /\ text \in FailureTexts
  /\ InitLocals
  /\ history = <<>>
  /\ suspended = <<>>
  /\ ElsewhereIdle

NextFailure ==
  \/ Next
  \/ PatternThrows

SpecFailure == InitFailure /\ [][NextFailure]_vars

-----------------------------------------------------------------------------
(* Calls one after the other.                                              *)

\* the greatest number of calls in a row
MaxCalls == 3

\* ' '
TextBlank == <<" ">>

\* '42 7%'
TextTwoTokens == <<"4", "2", " ", "7", "%">>

CallTexts == {<<>>, TextBlank, TextTwoTokens, TextSharedTokens, TextSmallValues}

\* the next call of extractNumbersFromText, once the previous one has
\* returned: what the previous call left behind is still in memory
NewCall ==
  /\ pc = "done"
  /\ Len(history) < MaxCalls
  /\ text' \in CallTexts
  /\ pc' = "entry"
  /\ UNCHANGED <<cleanText, patternIndex, matches, foundNumbers, results, output>>
  /\ UNCHANGED <<failedPatterns, history, suspended, elsewhere>>

InitSequential ==
  /\ text \in CallTexts
  /\ InitLocals
  /\ history = <<>>
  /\ suspended = <<>>
  /\ ElsewhereIdle

NextSequential ==
  \/ Next
  \/ NewCall

SpecSequential == InitSequential /\ [][NextSequential]_vars

-----------------------------------------------------------------------------
(* Two calls whose steps are interleaved.                                  *)

\* the locals of the call that is running
CurrentFrame ==
  [text |-> text, pc |-> pc, cleanText |-> cleanText, patternIndex |-> patternIndex,
   matches |-> matches, foundNumbers |-> foundNumbers, results |-> results,
   output |-> output]

\* the locals of a call of extractNumbersFromText(t) at its entry
EntryFrame(t) ==
  [text |-> t, pc |-> "entry", cleanText |-> <<>>, patternIndex |-> 1,
   matches |-> <<>>, foundNumbers |-> <<>>, results |-> <<>>, output |-> <<>>]

\* Switch with foundNumbers left where it is: one Map for all the calls
SwitchSharingMap ==
  \E k \in 1..Len(suspended) :
    LET frame == suspended[k]
    IN  /\ text' = frame.text
        /\ pc' = frame.pc
        /\ cleanText' = frame.cleanText
        /\ patternIndex' = frame.patternIndex
        /\ matches' = frame.matches
        /\ results' = frame.results
        /\ output' = frame.output
        /\ suspended' = [suspended EXCEPT ![k] = CurrentFrame]
        /\ UNCHANGED <<foundNumbers, failedPatterns, history, elsewhere>>

\* the running call is suspended and another call goes on: every call has
\* its own text, cleanText, patterns, foundNumbers and results
Switch ==
  \E k \in 1..Len(suspended) :
    LET frame == suspended[k]
    IN  /\ text' = frame.text
        /\ pc' = frame.pc
        /\ cleanText' = frame.cleanText
        /\ patternIndex' = frame.patternIndex
        /\ matches' = frame.matches
        /\ foundNumbers' = frame.foundNumbers
        /\ results' = frame.results
        /\ output' = frame.output
        /\ suspended' = [suspended EXCEPT ![k] = CurrentFrame]
        /\ UNCHANGED <<failedPatterns, history, elsewhere>>

InitInterleaved ==
  /\ text \in CallTexts
  /\ InitLocals
  /\ history = <<>>
  /\ \E t \in CallTexts : suspended = <<EntryFrame(t)>>
  /\ ElsewhereIdle

NextInterleaved ==
  \/ Next
  \/ Switch

SpecInterleaved == InitInterleaved /\ [][NextInterleaved]_vars

-----------------------------------------------------------------------------
(* extractTextFromVisionResponse(visionResponse)                           *)

\* the greatest number of text annotations of a response
MaxAnnotations == 2

\* the texts of a response
VisionStrings == {"", "42", "7"}

\* a property of an object is absent (None) or has a value (Some)
Optional(S) == {None} \cup {Some(v) : v \in S}

TextAnnotations ==
  UNION {[1..n -> [description : Optional(VisionStrings)]] : n \in 0..MaxAnnotations}

VisionResponses ==
  [responses :
     Optional({<<>>} \cup
              {<<r>> : r \in [error              : Optional([message : {"Bad image data."}]),
                              fullTextAnnotation : Optional([text : Optional(VisionStrings)]),
                              textAnnotations    : Optional(TextAnnotations)]})]

\* the call of extractTextFromVisionResponse
ExtractText ==
  /\ extractedText = Pending
  /\ extractedText' = extractTextFromVisionResponse(visionResponse)
  /\ UNCHANGED <<text, pc, cleanText, patternIndex, matches, foundNumbers, results, output>>
  /\ UNCHANGED <<failedPatterns, history, suspended, visionResponse, imageVars, cropVars, storageVars, cameraVars>>

InitVision ==
  /\ visionResponse \in VisionResponses
  /\ extractedText = Pending
  /\ text = <<>>
  /\ InitLocals
  /\ history = <<>>
  /\ suspended = <<>>
  /\ ImageIdle
  /\ CropIdle
  /\ StorageIdle
  /\ CameraIdle

NextVision == ExtractText

SpecVision == InitVision /\ [][NextVision]_vars

-----------------------------------------------------------------------------
(* extractNumbersFromImage(imageUri) and the functions it calls.           *)

\* message.includes(part)
Includes(message, part) ==
  \E i \in 1..(Len(message) - Len(part) + 1) : SubSeq(message, i, i + Len(part) - 1) = part

\* uri.startsWith(prefix)
StartsWith(uri, prefix) ==
  Len(uri) >= Len(prefix) /\ SubSeq(uri, 1, Len(prefix)) = prefix

\* the characters of a string, one by one
Chars(s) == [i \in 1..Len(s) |-> SubSeq(s, i, i)]

\* 10 * 1024 * 1024
MaxBase64Length == 10485760

\* a base64 string, known by its length
Base64Images == {[length |-> n] : n \in {0, 1, MaxBase64Length, MaxBase64Length + 1}}

ImageUris == {"file:///photo.jpg", "content://photo"}

\* what manipulateAsync does: it resolves with or without base64, or rejects
Manipulations ==
  {Returned([base64 |-> b]) : b \in Optional(Base64Images)}
    \cup {Thrown("Could not load the image")}

\* what FileSystem.readAsStringAsync does
DirectReads ==
  {Returned(b) : b \in Base64Images} \cup {Thrown("File is not readable")}

\* convertImageToBase64(imageUri), given what manipulateAsync and
\* readAsStringAsync do
convertImageToBase64(uri, manipulated, readDirectly) ==
  LET tried ==
        IF StartsWith(uri, "file://")
        THEN IF manipulated.outcome = "thrown" THEN manipulated
             ELSE LET base64 == manipulated.value.base64
                  IN  IF ~IsSome(base64) \/ ValueOf(base64).length = 0
                      THEN Thrown("Failed to convert image to base64")
                      ELSE Returned(ValueOf(base64))
        ELSE Thrown("Unsupported image format")
  IN  IF tried.outcome = "returned" THEN tried
      ELSE IF readDirectly.outcome = "returned" THEN readDirectly
      ELSE Thrown("Failed to process image for OCR")

\* the bodies of the responses that are not OK, each with what JSON.parse
\* makes of it: None when it raises a SyntaxError
ErrorBodies ==
  {[text |-> "{\"error\":{\"code\":403,\"message\":\"API key not valid.\"}}",
    data |-> Some([kind |-> "object",
                   error |-> Some([message |-> Some("API key not valid.")])])],
   [text |-> "{\"error\":{\"message\":\"\"}}",
    data |-> Some([kind |-> "object", error |-> Some([message |-> Some("")])])],
   [text |-> "{\"error\":{}}",
    data |-> Some([kind |-> "object", error |-> Some([message |-> None])])],
   [text |-> "{}",
    data |-> Some([kind |-> "object", error |-> None])],
   [text |-> "null",
    data |-> Some([kind |-> "null"])],
   [text |-> "Bad Gateway",
    data |-> None],
   [text |-> "",
    data |-> None]}

\* JSON.parse(errorText)
JSONParse(errorText) == (CHOOSE b \in ErrorBodies : b.text = errorText).data

ErrorStatuses == {400, 403, 429, 502}

\* response.ok
Ok(response) == response.status \in 200..299

\* the try block of the branch for a response that is not OK: it throws in
\* every case
ParseErrorBody(response) ==
  LET errorData == JSONParse(response.text)
  IN  IF ~IsSome(errorData)
      THEN Thrown("JSON Parse error: Unexpected token")
      ELSE IF ValueOf(errorData).kind = "null"
      THEN Thrown("Cannot read property 'error' of null")
      ELSE LET errorOf == ValueOf(errorData).error
               errorMessage ==
                 IF IsSome(errorOf) /\ IsTruthyText(ValueOf(errorOf).message)
                 THEN ValueOf(ValueOf(errorOf).message)
                 ELSE "HTTP " \o ToString(response.status)
           IN  Thrown("Vision API error: " \o errorMessage)

\* the branch with its catch block letting the error of the try block out
HttpErrorUncaught(response) ==
  LET tried == ParseErrorBody(response)
  IN  IF IsSome(JSONParse(response.text)) /\ ValueOf(JSONParse(response.text)).kind # "null"
      THEN tried
      ELSE Thrown("Vision API error: " \o ToString(response.status) \o " - " \o response.text)

\* if (!response.ok) { ... try { ... } catch (parseError) { throw ... } }
HttpError(response) ==
  LET errorText == response.text
      tried == ParseErrorBody(response)
  IN  IF tried.outcome = "thrown"
      THEN Thrown("Vision API error: " \o ToString(response.status) \o " - " \o errorText)
      ELSE tried

\* the messages of the error of a response
ApiMessages == {"Bad image data.", "Request had quota exceeded."}

\* the texts of a response
ImageStrings == VisionStrings \cup {" ", "$3 2%"}

ImageResponses ==
  VisionResponses \cup
  [responses :
     {Some(<<r>>) : r \in [error              : Optional([message : ApiMessages]),
                           fullTextAnnotation : Optional([text : Optional(ImageStrings)]),
                           textAnnotations    : {None}]}]

\* what fetch does: it rejects, or resolves with a response; a response
\* that is OK is known by what its json() does, another by its text()
Fetches ==
  {Thrown(m) : m \in {"Network request failed", "Failed to fetch"}}
    \cup {Returned([status |-> 200, json |-> Returned(v)]) : v \in ImageResponses}
    \cup {Returned([status |-> 200, json |-> Thrown("JSON Parse error: Unexpected token")])}
    \cup {Returned([status |-> s, text |-> b.text]) : s \in ErrorStatuses, b \in ErrorBodies}

\* callGoogleVisionAPI(base64Image), given what fetch does; its outer catch
\* rethrows
callGoogleVisionAPI(image, fetching) ==
  IF image.length > MaxBase64Length
  THEN Thrown("Image too large for Vision API")
  ELSE IF fetching.outcome = "thrown" THEN fetching
  ELSE LET response == fetching.value
       IN  IF ~Ok(response) THEN HttpError(response)
           ELSE IF response.json.outcome = "thrown" THEN response.json
           ELSE LET result == response.json.value
                IN  IF /\ IsSome(result.responses)
                       /\ Len(ValueOf(result.responses)) > 0
                       /\ IsSome(ValueOf(result.responses)[1].error)
                    THEN Thrown("Vision API error: "
                                  \o ValueOf(ValueOf(result.responses)[1].error).message)
                    ELSE Returned(result)

\* lines 21-25: the text of the response, or the error of no text
DetectText(response) ==
  LET extracted == extractTextFromVisionResponse(response)
  IN  IF extracted.outcome = "thrown" THEN extracted
      ELSE IF \/ ~IsTruthyText(extracted.value)
              \/ Len(Trim(Chars(ValueOf(extracted.value)))) = 0
      THEN Thrown("No text detected in the image")
      ELSE Returned(ValueOf(extracted.value))

\* the numbers of the text, none of them included
DetectNumbersOrNone(detected) == Returned(extractNumbersFromText(Chars(detected)))

\* lines 30-37: the numbers of the text, or the error of no numbers
DetectNumbers(detected) ==
  LET numbers == extractNumbersFromText(Chars(detected))
  IN  IF Len(numbers) = 0
      THEN Thrown("No numbers found in the detected text")
      ELSE Returned(numbers)

InvalidApiKey ==
  "Invalid API key or Vision API not enabled. Please check your Google Cloud Console settings."

QuotaExceeded ==
  "API quota exceeded. Please check your Google Cloud Console billing and quotas."

InvalidImageFormat == "Invalid image format. Please try capturing the image again."

NetworkError == "Network error. Please check your internet connection and try again."

\* the classification with the quota tested before the key
ClassifyQuotaFirst(message) ==
  IF Includes(message, "429") \/ Includes(message, "quota") THEN QuotaExceeded
  ELSE IF Includes(message, "403") \/ Includes(message, "API key") THEN InvalidApiKey
  ELSE IF Includes(message, "400") THEN InvalidImageFormat
  ELSE IF Includes(message, "network") \/ Includes(message, "Failed to fetch")
  THEN NetworkError
  ELSE message

\* the catch block: the message of the error it throws for the error it
\* caught; every value thrown in the try block is an Error
Classify(message) ==
  IF Includes(message, "403") \/ Includes(message, "API key") THEN InvalidApiKey
  ELSE IF Includes(message, "429") \/ Includes(message, "quota") THEN QuotaExceeded
  ELSE IF Includes(message, "400") THEN InvalidImageFormat
  ELSE IF Includes(message, "network") \/ Includes(message, "Failed to fetch")
  THEN NetworkError
  ELSE message

\* the call from its entry to its end, given what the platform does
extractNumbersFromImage(uri, manipulated, readDirectly, fetching) ==
  LET converted == convertImageToBase64(uri, manipulated, readDirectly)
      called == callGoogleVisionAPI(converted.value, fetching)
      detected == DetectText(called.value)
      numbers == DetectNumbers(detected.value)
      tried == IF converted.outcome = "thrown" THEN converted
               ELSE IF called.outcome = "thrown" THEN called
               ELSE IF detected.outcome = "thrown" THEN detected
               ELSE numbers
  IN  IF tried.outcome = "thrown" THEN Thrown(Classify(ValueOf(tried.value))) ELSE tried

\* the step to a thrown error, or else to the next statement
Proceed(outcome, next) ==
  IF outcome.outcome = "thrown"
  THEN error' = outcome.value /\ imagePc' = "catch"
  ELSE error' = error /\ imagePc' = next

\* const base64Image = await convertImageToBase64(imageUri);
ConvertImage ==
  /\ imagePc = "convert"
  /\ \E manipulated \in Manipulations, readDirectly \in DirectReads :
       LET converted == convertImageToBase64(imageUri, manipulated, readDirectly)
       IN  /\ Proceed(converted, "call")
           /\ base64Image' = IF converted.outcome = "returned"
                             THEN Some(converted.value) ELSE base64Image
  /\ UNCHANGED <<textVars, visionResponse, extractedText, imageUri, fetched, imageResult>>
  /\ UNCHANGED <<cropVars, storageVars, cameraVars>>

\* const visionResponse = await callGoogleVisionAPI(base64Image);
CallVision ==
  /\ imagePc = "call"
  /\ \E outcome \in Fetches :
       LET called == callGoogleVisionAPI(ValueOf(base64Image), outcome)
       IN  /\ Proceed(called, "extract")
           /\ fetched' = IF ValueOf(base64Image).length > MaxBase64Length
                         THEN None ELSE Some(outcome)
           /\ visionResponse' = IF called.outcome = "returned"
                                THEN called.value ELSE visionResponse
  /\ UNCHANGED <<textVars, extractedText, imageUri, base64Image, imageResult>>
  /\ UNCHANGED <<cropVars, storageVars, cameraVars>>

\* const extractedText = extractTextFromVisionResponse(visionResponse);
\* if (!extractedText || extractedText.trim().length === 0) throw ...
ExtractImageText ==
  /\ imagePc = "extract"
  /\ extractedText' = extractTextFromVisionResponse(visionResponse)
  /\ Proceed(DetectText(visionResponse), "numbers")
  /\ UNCHANGED <<textVars, visionResponse, imageUri, base64Image, fetched, imageResult>>
  /\ UNCHANGED <<cropVars, storageVars, cameraVars>>

\* const numbers = extractNumbersFromText(extractedText);
\* if (numbers.length === 0) throw ...; return numbers;
ExtractImageNumbers ==
  /\ imagePc = "numbers"
  /\ LET numbers == DetectNumbers(ValueOf(extractedText.value))
     IN  /\ Proceed(numbers, "done")
         /\ imageResult' = IF numbers.outcome = "returned" THEN numbers ELSE imageResult
  /\ UNCHANGED <<textVars, visionResponse, extractedText, imageUri, base64Image, fetched>>
  /\ UNCHANGED <<cropVars, storageVars, cameraVars>>

\* catch (error) { ... throw ... }
CatchImageError ==
  /\ imagePc = "catch"
  /\ imageResult' = Thrown(Classify(ValueOf(error)))
  /\ imagePc' = "done"
  /\ UNCHANGED <<textVars, visionResponse, extractedText, imageUri, base64Image, fetched, error>>
  /\ UNCHANGED <<cropVars, storageVars, cameraVars>>

TextIdle ==
  /\ text = <<>>
  /\ InitLocals
  /\ history = <<>>
  /\ suspended = <<>>

InitImage ==
  /\ imageUri \in ImageUris
  /\ imagePc = "convert"
  /\ base64Image = None
  /\ fetched = None
  /\ error = None
  /\ imageResult = Pending
  /\ VisionIdle
  /\ TextIdle
  /\ CropIdle
  /\ StorageIdle
  /\ CameraIdle

NextImage ==
  \/ ConvertImage
  \/ CallVision
  \/ ExtractImageText
  \/ ExtractImageNumbers
  \/ CatchImageError

SpecImage == InitImage /\ [][NextImage]_vars

-----------------------------------------------------------------------------
(* cropImageToRectangle(imageUri, cropBounds)                              *)

\* the numbers of this function are counted in hundredths
Scale == 100

\* n pixels
Pixels(n) == n * Scale

\* Math.round(v): the nearest whole number, a half going up
Round(v) == ((v + Scale \div 2) \div Scale) * Scale

\* Math.max(a, b)
Max(a, b) == IF a >= b THEN a ELSE b

\* Math.min(a, b)
Lesser(a, b) == IF a <= b THEN a ELSE b

\* Math.abs(v)
Abs(v) == IF v >= 0 THEN v ELSE 0 - v

\* -0.4, 0, 0.5 and 1.5
CropOrigins == {0 - 40, 0, 50, 150}

\* -1, 0, 0.4, 0.5, 1.5, 200 and 300
CropSizes == {0 - 100, 0, 40, 50, 150, 20000, 30000}

CropBoundsInputs == [x : CropOrigins, y : CropOrigins, width : CropSizes, height : CropSizes]

\* lines 25-34: the first manipulation
CropOf(bounds) ==
  [crop |-> [originX |-> Max(0, Round(bounds.x)),
             originY |-> Max(0, Round(bounds.y)),
             width   |-> Round(bounds.width),
             height  |-> Round(bounds.height)]]

\* lines 19-73: the arguments of manipulateAsync
ManipulationOf(bounds) ==
  LET isSmallCrop == bounds.width * bounds.height < 40000 * Scale * Scale
      targetWidth == IF isSmallCrop
                     THEN Max(Pixels(800), (bounds.width * 5) \div 2)
                     ELSE Max(Pixels(600), Lesser(Pixels(1200), (bounds.width * 6) \div 5))
      resize == IF Abs(targetWidth - bounds.width) > Pixels(50)
                THEN <<[resize |-> [width |-> targetWidth]]>>
                ELSE <<>>
  IN  [manipulations |-> <<CropOf(bounds)>> \o resize,
       format        |-> IF isSmallCrop THEN "png" ELSE "jpeg",
       compress      |-> IF isSmallCrop THEN Scale ELSE 85]

\* the call up to its await: the bounds are refused, or manipulateAsync is
\* called
CropImage ==
  /\ cropResult = Pending
  /\ manipulation = None
  /\ IF cropBounds.width <= 0 \/ cropBounds.height <= 0
     THEN /\ cropResult' = Thrown("Failed to crop image: " \o "Invalid crop bounds")
          /\ UNCHANGED manipulation
     ELSE /\ manipulation' = Some(ManipulationOf(cropBounds))
          /\ UNCHANGED cropResult
  /\ UNCHANGED <<textVars, visionResponse, extractedText, imageVars, cropBounds, storageVars, cameraVars>>

\* manipulateAsync resolves and the call returns result.uri
ManipulatorResolves ==
  /\ cropResult = Pending
  /\ IsSome(manipulation)
  /\ cropResult' = Returned("file:///cropped")
  /\ UNCHANGED <<textVars, visionResponse, extractedText, imageVars, cropBounds, manipulation, storageVars, cameraVars>>

\* manipulateAsync rejects and the catch block throws
ManipulatorRejects ==
  /\ cropResult = Pending
  /\ IsSome(manipulation)
  /\ cropResult' = Thrown("Failed to crop image: " \o "Could not load the image")
  /\ UNCHANGED <<textVars, visionResponse, extractedText, imageVars, cropBounds, manipulation, storageVars, cameraVars>>

InitCrop ==
  /\ cropBounds \in CropBoundsInputs
  /\ manipulation = None
  /\ cropResult = Pending
  /\ TextIdle
  /\ VisionIdle
  /\ ImageIdle
  /\ StorageIdle
  /\ CameraIdle

NextCrop ==
  \/ CropImage
  \/ ManipulatorResolves
  \/ ManipulatorRejects

SpecCrop == InitCrop /\ [][NextCrop]_vars

-----------------------------------------------------------------------------
(* storage.tsx: saveScanResult, getAllScanResults, deleteScanResult.       *)

\* the greatest number of calls of saveScanResult and deleteScanResult
MaxOps == 2

\* the greatest reading of the clock
MaxTime == 2

\* JSON.stringify(results): the text, known by what JSON.parse makes of it
Stringify(list) == [parsed |-> Some(list)]

\* an item that JSON.parse refuses
CorruptItem == [parsed |-> None]

\* the argument of saveScanResult
ScanDatas ==
  [numbers          : {<<"42">>, <<"7", "8">>},
   croppedImageUri  : {Some("file:///cropped")},
   originalImageUri : {Some("file:///photo.jpg")}]

\* a result stored before the clock of the model starts
EarlierResult ==
  [id |-> "0", timestamp |-> 0, numbers |-> <<"42">>,
   croppedImageUri |-> Some("file:///cropped"),
   originalImageUri |-> Some("file:///photo.jpg")]

\* lines 8-14: the result of a call at the time of the clock
NewScanResult(scanData, time) ==
  [id               |-> ToString(time),
   timestamp        |-> time,
   numbers          |-> scanData.numbers,
   croppedImageUri  |-> scanData.croppedImageUri,
   originalImageUri |-> scanData.originalImageUri]

\* lines 35-41: the fields of a stored result; the numbers of a result that
\* saveScanResult wrote are an array
Normalise(result) ==
  [id               |-> result.id,
   timestamp        |-> result.timestamp,
   numbers          |-> result.numbers,
   croppedImageUri  |-> result.croppedImageUri,
   originalImageUri |-> result.originalImageUri]

\* getAllScanResults(), given what AsyncStorage.getItem does: a rejection
\* and a text that does not parse both give []
getAllScanResults(read) ==
  IF read.outcome = "thrown" THEN <<>>
  ELSE IF ~IsSome(read.value) THEN <<>>
  ELSE LET parsed == ValueOf(read.value).parsed
       IN  IF ~IsSome(parsed) THEN <<>>
           ELSE [i \in 1..Len(ValueOf(parsed)) |-> Normalise(ValueOf(parsed)[i])]

\* the results that storage holds
StoredResults == getAllScanResults(Returned(storage))

StoredIds == {StoredResults[i].id : i \in 1..Len(StoredResults)}

\* line 17 and line 61: the list a call writes
UpdatedResults(call) ==
  IF call.op = "save"
  THEN <<ValueOf(call.scanResult)>> \o call.existingResults
  ELSE SelectSeq(call.existingResults, LAMBDA result : result.id # call.scanId)

\* a call of saveScanResult starts: lines 8-14
SaveStart ==
  /\ Len(calls) < MaxOps
  /\ \E scanData \in ScanDatas :
       calls' = Append(calls, [op              |-> "save",
                               pc              |-> "read",
                               scanId          |-> ToString(now),
                               scanResult      |-> Some(NewScanResult(scanData, now)),
                               existingResults |-> <<>>,
                               readFailed      |-> FALSE,
                               storedAtEntry   |-> StoredResults])
  /\ UNCHANGED <<textVars, visionResponse, extractedText, imageVars, cropVars, storage, now, cameraVars>>

\* a call of deleteScanResult starts, for an id that is or was stored
DeleteStart ==
  /\ Len(calls) < MaxOps
  /\ \E scanId \in StoredIds \cup {EarlierResult.id} :
       calls' = Append(calls, [op              |-> "delete",
                               pc              |-> "read",
                               scanId          |-> scanId,
                               scanResult      |-> None,
                               existingResults |-> <<>>,
                               readFailed      |-> FALSE,
                               storedAtEntry   |-> StoredResults])
  /\ UNCHANGED <<textVars, visionResponse, extractedText, imageVars, cropVars, storage, now, cameraVars>>

\* await getAllScanResults() of a call resolves: line 16 and line 60
ReadStored ==
  /\ \E k \in 1..Len(calls) :
       /\ calls[k].pc = "read"
       /\ \E read \in {Returned(storage), Thrown("Could not read the item")} :
            calls' = [calls EXCEPT ![k].existingResults = getAllScanResults(read),
                                   ![k].readFailed = (read.outcome = "thrown"),
                                   ![k].pc = "write"]
  /\ UNCHANGED <<textVars, visionResponse, extractedText, imageVars, cropVars, storage, now, cameraVars>>

\* await AsyncStorage.setItem(...) of a call resolves and the call returns:
\* lines 19-22 and lines 62-64
WriteStored ==
  /\ \E k \in 1..Len(calls) :
       /\ calls[k].pc = "write"
       /\ storage' = Some(Stringify(UpdatedResults(calls[k])))
       /\ calls' = [calls EXCEPT ![k].pc = "returned"]
  /\ UNCHANGED <<textVars, visionResponse, extractedText, imageVars, cropVars, now, cameraVars>>

\* await AsyncStorage.setItem(...) of a call rejects and the call throws:
\* lines 23-26 and lines 65-68
WriteFails ==
  /\ \E k \in 1..Len(calls) :
       /\ calls[k].pc = "write"
       /\ calls' = [calls EXCEPT ![k].pc = "threw"]
  /\ UNCHANGED <<textVars, visionResponse, extractedText, imageVars, cropVars, storage, now, cameraVars>>

\* a millisecond passes
Tick ==
  /\ now < MaxTime
  /\ now' = now + 1
  /\ UNCHANGED <<textVars, visionResponse, extractedText, imageVars, cropVars, storage, calls, cameraVars>>

InitStorage ==
  /\ storage \in {None, Some(Stringify(<<EarlierResult>>)), Some(CorruptItem)}
  /\ now = 1
  /\ calls = <<>>
  /\ TextIdle
  /\ VisionIdle
  /\ ImageIdle
  /\ CropIdle
  /\ CameraIdle

NextStorage ==
  \/ SaveStart
  \/ DeleteStart
  \/ ReadStored
  \/ WriteStored
  \/ WriteFails
  \/ Tick

SpecStorage == InitStorage /\ [][NextStorage]_vars

-----------------------------------------------------------------------------
(* CameraScreen: captureAndProcess and the capture button.                 *)

\* the greatest number of invocations of captureAndProcess
MaxTaps == 2

\* what extractNumbersFromImage(croppedImageUri) can do
ImageOutcomes ==
  {extractNumbersFromImage("file:///cropped", manipulated, readDirectly, fetching) :
     manipulated \in Manipulations, readDirectly \in DirectReads, fetching \in Fetches}

\* cameraRef.current.takePictureAsync(...): a photo, nothing, or a rejection
Pictures ==
  {Returned(Some("file:///photo.jpg")), Returned(None), Thrown("Camera is not running")}

\* an invocation that passed line 69 and awaits takePictureAsync
Capturing ==
  [pc |-> "capture", ocr |-> Pending, saved |-> None, alert |-> None,
   pushed |-> FALSE, reset |-> FALSE]

\* an invocation that line 69 returned from, or that the disabled button
\* did not let through
Refused == [Capturing EXCEPT !.pc = "refused"]

\* finally { setIsProcessing(false); }
Finally(invocation) == [invocation EXCEPT !.pc = "done", !.reset = TRUE]

\* catch (error) { Alert.alert("Processing Error", ...) } finally { ... }
Caught(invocation) == Finally([invocation EXCEPT !.alert = Some("Processing Error")])

\* the invocations that are between line 71 and the finally block
InFlight == {k \in 1..Len(invocations) : invocations[k].pc \in {"capture", "crop", "ocr", "save"}}

\* the step of invocation k to the record after; isProcessing is set to
\* false when the finally block has run
Step(k, after) ==
  /\ invocations' = [invocations EXCEPT ![k] = after]
  /\ isProcessing' = IF after.reset THEN FALSE ELSE isProcessing
  /\ UNCHANGED <<textVars, visionResponse, extractedText, imageVars, cropVars, storageVars>>
  /\ UNCHANGED <<cameraReady, rendered>>

\* onCameraReady={handleCameraReady}
CameraReady ==
  /\ ~cameraReady
  /\ cameraReady' = TRUE
  /\ UNCHANGED <<textVars, visionResponse, extractedText, imageVars, cropVars, storageVars>>
  /\ UNCHANGED <<isProcessing, rendered, invocations>>

\* React renders the screen with the state as it is
Render ==
  /\ rendered # [cameraReady |-> cameraReady, isProcessing |-> isProcessing]
  /\ rendered' = [cameraReady |-> cameraReady, isProcessing |-> isProcessing]
  /\ UNCHANGED <<textVars, visionResponse, extractedText, imageVars, cropVars, storageVars>>
  /\ UNCHANGED <<cameraReady, isProcessing, invocations>>

\* a tap on the capture button: captureAndProcess of the render on screen
\* runs to its first await; the camera is mounted, so cameraRef.current is set
Tap ==
  /\ Len(invocations) < MaxTaps
  /\ IF ~rendered.cameraReady \/ rendered.isProcessing
     THEN /\ invocations' = Append(invocations, Refused)
          /\ UNCHANGED isProcessing
     ELSE /\ invocations' = Append(invocations, Capturing)
          /\ isProcessing' = TRUE
  /\ UNCHANGED <<textVars, visionResponse, extractedText, imageVars, cropVars, storageVars>>
  /\ UNCHANGED <<cameraReady, rendered>>

\* await cameraRef.current.takePictureAsync(...) is over: lines 75-94
PictureResolves ==
  \E k \in 1..Len(invocations) :
    /\ invocations[k].pc = "capture"
    /\ \E photo \in Pictures :
         Step(k, IF photo.outcome = "returned" /\ IsSome(photo.value)
                 THEN [invocations[k] EXCEPT !.pc = "crop"]
                 ELSE Caught(invocations[k]))

\* await cropImageToRectangle(photo.uri, cropBounds) is over: lines 94-97
CropResolves ==
  \E k \in 1..Len(invocations) :
    /\ invocations[k].pc = "crop"
    /\ \E cropped \in {Returned("file:///cropped"),
                       Thrown("Failed to crop image: Could not load the image")} :
         Step(k, IF cropped.outcome = "returned"
                 THEN [invocations[k] EXCEPT !.pc = "ocr"]
                 ELSE Caught(invocations[k]))

\* await extractNumbersFromImage(croppedImageUri) is over: lines 97-112
OcrResolves ==
  \E k \in 1..Len(invocations) :
    /\ invocations[k].pc = "ocr"
    /\ \E extractedNumbers \in ImageOutcomes :
         LET known == [invocations[k] EXCEPT !.ocr = extractedNumbers]
         IN  Step(k, IF extractedNumbers.outcome = "thrown" THEN Caught(known)
                     ELSE IF Len(extractedNumbers.value) = 0
                     THEN Finally([known EXCEPT !.alert = Some("No Numbers Found")])
                     ELSE [known EXCEPT !.pc = "save",
                                        !.saved = Some(extractedNumbers.value)])

\* await saveScanResult(...) is over, with a rejection that skips the
\* finally block
SaveResolvesWithoutFinally ==
  \E k \in 1..Len(invocations) :
    /\ invocations[k].pc = "save"
    /\ \E stored \in {Returned("1"), Thrown("Failed to save scan result")} :
         Step(k, IF stored.outcome = "returned"
                 THEN Finally([invocations[k] EXCEPT !.pushed = TRUE])
                 ELSE [invocations[k] EXCEPT !.pc = "done",
                                             !.alert = Some("Processing Error")])

\* await saveScanResult(...) is over: lines 108-124
SaveResolves ==
  \E k \in 1..Len(invocations) :
    /\ invocations[k].pc = "save"
    /\ \E stored \in {Returned("1"), Thrown("Failed to save scan result")} :
         Step(k, IF stored.outcome = "returned"
                 THEN Finally([invocations[k] EXCEPT !.pushed = TRUE])
                 ELSE Caught(invocations[k]))

InitCamera ==
  /\ CameraIdle
  /\ TextIdle
  /\ VisionIdle
  /\ ImageIdle
  /\ CropIdle
  /\ StorageIdle

NextCamera ==
  \/ CameraReady
  \/ Render
  \/ Tap
  \/ PictureResolves
  \/ CropResolves
  \/ OcrResolves
  \/ SaveResolves

SpecCamera == InitCamera /\ [][NextCamera]_vars

\* every awaited step resolves or rejects in the end
SpecCameraFair ==
  /\ SpecCamera
  /\ WF_vars(PictureResolves)
  /\ WF_vars(CropResolves)
  /\ WF_vars(OcrResolves)
  /\ WF_vars(SaveResolves)

-----------------------------------------------------------------------------
(* What the properties speak of.                                           *)

\* the positions of token in a list
PositionsOf(list, token) == {i \in 1..Len(list) : list[i] = token}

\* every match of the pattern list in cleanText, as [pattern, index, start,
\* text]: the index-th match of patterns[pattern]
MatchesOf(indexes) ==
  UNION {
    LET found == MatchAll(patterns[k].name, cleanText, 1)
    IN  {[pattern |-> k, index |-> i, start |-> found[i].start, text |-> found[i].text] :
           i \in 1..Len(found)} :
    k \in indexes}

AllMatches == MatchesOf(1..Len(patterns))

\* the matches matches.forEach has visited so far
Visited(all) ==
  LET ms == all
      current == Cardinality({x \in ms : x.pattern = patternIndex})
  IN  {m \in ms :
         \/ pc \in {"sorted", "done"}
         \/ m.pattern < patternIndex
         \/ /\ m.pattern = patternIndex
            /\ pc = "matches"
            /\ m.index <= current - Len(matches)}

\* the matches visited so far, found among the matches of the patterns that
\* forEach has reached
VisitedMatches ==
  LET reached == IF pc \in {"sorted", "done"} THEN Len(patterns)
                 ELSE IF pc = "matches" THEN patternIndex
                 ELSE patternIndex - 1
  IN  Visited(MatchesOf(1..reached))

\* a match that has digits, is no skipped small number and passes the
\* numeric validation
IsKept(m) ==
  LET cleaned == StripParentheses(Trim(m.text))
  IN  /\ HasDigit(cleaned)
      /\ ~IsSkippedSmallNumber(cleaned, patterns[m.pattern].priority)
      /\ IsValidNumber(cleaned)

\* a match whose digits read as a number of at most two digits that is at
\* most SmallNumberLimit
IsSmall(m) ==
  LET digits == KeepOnly(m.text, Digit)
  IN  Len(digits) \in 1..2 /\ ParseInt(digits) <= SmallNumberLimit

\* the priorities of the kept matches, among ms, that are stored under token
PrioritiesOf(ms, token) ==
  {patterns[m.pattern].priority : m \in {x \in ms : IsKept(x) /\ TokenOf(x.text) = token}}

-----------------------------------------------------------------------------
(* C1 *)

\* C1: whatever the text, the returned list has at most MaxResults (20)
\* elements.
CapInvariant == pc = "done" => Len(output) <= MaxResults

\* a call that found more than MaxResults tokens has returned
CapWitness ==
  pc = "done" /\ Len(results) > MaxResults /\ Len(output) = MaxResults

-----------------------------------------------------------------------------
(* C2 *)

Token1575Percent == <<"1", "5", ".", "7", "5", "%">>
Token42 == <<"4", "2">>

\* C2: the returned list is in ascending order of the priority retained in
\* foundNumbers; a returned token that only the short-whole-number pattern
\* matched comes after every token the percentage pattern matched; and for
\* 'Total: 42 items at 15.75% discount' the list holds '15.75%' before '42'.
PriorityOrder ==
  pc = "done" =>
    /\ \A i, j \in 1..Len(output) :
         i < j => GetPriority(foundNumbers, output[i]) <= GetPriority(foundNumbers, output[j])
    /\ \A m \in AllMatches : \A j \in 1..Len(output) :
         /\ patterns[m.pattern].name = "Percentages"
         /\ GetPriority(foundNumbers, output[j]) = LowPriority
         => \E i \in 1..(j - 1) : output[i] = TokenOf(m.text)
    /\ text = TextDiscount =>
         \E i, j \in 1..Len(output) :
           i < j /\ output[i] = Token1575Percent /\ output[j] = Token42

\* the call on 'Total: 42 items at 15.75% discount' has returned both tokens
PriorityOrderWitness ==
  /\ pc = "done"
  /\ text = TextDiscount
  /\ PositionsOf(output, Token1575Percent) # {}
  /\ PositionsOf(output, Token42) # {}

-----------------------------------------------------------------------------
(* C3 *)

\* C3: of two returned tokens with the same retained priority, the longer
\* one comes first.
LongerFirst ==
  pc = "done" =>
    \A i, j \in 1..Len(output) :
      /\ i < j
      /\ GetPriority(foundNumbers, output[i]) = GetPriority(foundNumbers, output[j])
      => Len(output[i]) >= Len(output[j])

-----------------------------------------------------------------------------
(* C4 *)

\* the offset of the first kept match stored under token.  The offset is
\* taken in cleanText; the cleaning keeps the order of the characters it
\* keeps, so two matches are in the same order in the text given.
FirstMatchOffset(token) ==
  Min({m.start : m \in {x \in AllMatches : IsKept(x) /\ TokenOf(x.text) = token}})

\* C4: of two returned tokens with the same retained priority and the same
\* length, the one whose first match starts earlier comes first.
FirstMatchOrder ==
  pc = "done" =>
    \A i, j \in 1..Len(output) :
      /\ i < j
      /\ GetPriority(foundNumbers, output[i]) = GetPriority(foundNumbers, output[j])
      /\ Len(output[i]) = Len(output[j])
      => FirstMatchOffset(output[i]) <= FirstMatchOffset(output[j])

-----------------------------------------------------------------------------
(* C5 *)

Token1000 == <<"1", "0", "0", "0">>
Token1Comma000 == <<"1", ",", "0", "0", "0">>

\* C5: for '1000 and 1,000 items' the returned list holds exactly one
\* element that is '1,000' or '1000': the two matches of the same value are
\* collapsed to one token.
SameValueOnce ==
  pc = "done" /\ text = TextThousand =>
    Cardinality(PositionsOf(output, Token1000) \cup PositionsOf(output, Token1Comma000)) = 1

-----------------------------------------------------------------------------
(* C6 *)

\* C6: no string is twice in the returned list (nor twice a key of
\* foundNumbers), however many matches are stored under it.
NoDuplicates ==
  /\ \A i, j \in 1..Len(foundNumbers) :
       i # j => foundNumbers[i].key # foundNumbers[j].key
  /\ \A i, j \in 1..Len(output) : i # j => output[i] # output[j]

\* a returned token that two matches of one pattern and a match of another
\* pattern were stored under
NoDuplicatesWitness ==
  /\ pc = "done"
  /\ \E i \in 1..Len(output) :
       LET under == {m \in AllMatches : IsKept(m) /\ TokenOf(m.text) = output[i]}
       IN  \E a, b, c \in under :
             a.pattern = b.pattern /\ a.index # b.index /\ c.pattern # a.pattern

-----------------------------------------------------------------------------
(* C7 *)

\* C7: at every point of the call, the priority foundNumbers holds for a
\* token is the least priority among the kept matches visited so far that
\* are stored under it; so it is the least of all of them once every
\* pattern has been applied, and a later match of worse priority never
\* replaces a better one.
MinimumPriorityRetained ==
  LET visited == VisitedMatches
  IN  \A i \in 1..Len(foundNumbers) :
        LET ps == PrioritiesOf(visited, foundNumbers[i].key)
        IN  ps # {} /\ foundNumbers[i].priority = Min(ps)

\* every pattern has been applied, and there are a token whose first match
\* has a better priority than a later one and a token whose first match has
\* a worse priority than a later one
MinimumPriorityWitness ==
  /\ pc = "done"
  /\ \E t \in {foundNumbers[i].key : i \in 1..Len(foundNumbers)} :
       \E a, b \in {m \in AllMatches : IsKept(m) /\ TokenOf(m.text) = t} :
         a.pattern < b.pattern /\ patterns[a.pattern].priority < patterns[b.pattern].priority
  /\ \E t \in {foundNumbers[i].key : i \in 1..Len(foundNumbers)} :
       \E a, b \in {m \in AllMatches : IsKept(m) /\ TokenOf(m.text) = t} :
         a.pattern < b.pattern /\ patterns[a.pattern].priority > patterns[b.pattern].priority

-----------------------------------------------------------------------------
(* C8 *)

\* C8: no returned token has a retained priority of 4 or worse and a
\* numeric value of at most 3, zero-padded forms such as '03' and '003'
\* included.
SmallLowPriorityDiscarded ==
  pc = "done" =>
    \A i \in 1..Len(output) :
      ~ /\ GetPriority(foundNumbers, output[i]) >= LowPriority
        /\ ParseInt(KeepOnly(output[i], Digit)) <= 3

-----------------------------------------------------------------------------
(* C9 *)

TokenDollar3 == <<"$", "3">>
Token2Percent == <<"2", "%">>
TokenPlus1 == <<"+", "1">>
Token2 == <<"2">>

\* C9: every match visited so far of a pattern whose priority is better
\* than 4 is a key of foundNumbers, however small its value: the small
\* number filter drops matches of priority 4 or worse only.
SmallValuesKept ==
  \A m \in VisitedMatches :
    patterns[m.pattern].priority < LowPriority
    => HasKey(foundNumbers, TokenOf(m.text))

\* the call on '$3 2% +1 (2)' has returned, and small-valued matches of
\* the currency, percentage, signed and parenthesized patterns are stored
SmallValuesKeptWitness ==
  /\ pc = "done"
  /\ text = TextSmallValues
  /\ \A m \in AllMatches : IsSmall(m)
  /\ \A t \in {TokenDollar3, Token2Percent, TokenPlus1, Token2} :
       HasKey(foundNumbers, t) /\ PositionsOf(output, t) # {}

-----------------------------------------------------------------------------
(* C10 *)

CountDigits(s) == Len(KeepOnly(s, Digit))

\* the match m lies inside the match of a better-priority pattern that
\* spans more digits
IsPartial(m) ==
  \E w \in AllMatches :
    /\ patterns[w.pattern].priority < patterns[m.pattern].priority
    /\ w.start <= m.start
    /\ m.start + Len(m.text) <= w.start + Len(w.text)
    /\ CountDigits(w.text) > CountDigits(m.text)

\* C10: every returned token is stored under some match that is not a
\* proper part of a larger number matched by a better-priority pattern.
NoPartialMatches ==
  pc = "done" =>
    \A i \in 1..Len(output) :
      \E m \in AllMatches :
        IsKept(m) /\ TokenOf(m.text) = output[i] /\ ~IsPartial(m)

-----------------------------------------------------------------------------
(* C11: symbol preservation                                                *)

SymbolPatterns == {"Currency", "Percentages", "Temperature"}

\* a match of the currency, percentage or temperature pattern that passes
\* the numeric validation
IsSymbolMatch(m) ==
  /\ patterns[m.pattern].name \in SymbolPatterns
  /\ IsValidNumber(Trim(m.text))

HighestPriorityKeys == {i \in 1..Len(foundNumbers) : foundNumbers[i].priority = 1}

\* C11 (as amended): when the call returns, every match of the currency,
\* percentage or temperature pattern that passes the validation is kept
\* under the matched text, symbol included, with priority 1; that token is
\* in the returned list whenever the text yields at most 20 tokens of
\* priority 1.
SymbolKept ==
  pc = "done" =>
    \A m \in AllMatches :
       IsSymbolMatch(m) =>
       /\ HasSymbol(Trim(m.text))
       /\ HasKey(foundNumbers, Trim(m.text))
       /\ GetPriority(foundNumbers, Trim(m.text)) = 1
       /\ Cardinality(HighestPriorityKeys) <= MaxResults
            => PositionsOf(output, Trim(m.text)) # {}

TokenDollar1234 == <<"$", "1", ",", "2", "3", "4", ".", "5", "6">>

\* '$1,234.56' is returned as '$1,234.56'
SymbolKeptWitness ==
  /\ pc = "done"
  /\ text = TextCurrency
  /\ \E m \in AllMatches : IsSymbolMatch(m) /\ Trim(m.text) = TokenDollar1234
  /\ PositionsOf(output, TokenDollar1234) # {}

\* C11 (as stated): the token with its symbol is in the returned list
\* whenever the match is in the text.
SymbolInOutput ==
  pc = "done" =>
    \A m \in AllMatches : IsSymbolMatch(m) => PositionsOf(output, Trim(m.text)) # {}

-----------------------------------------------------------------------------
(* C12: the value the validation parses                                    *)

\* the patterns whose shape fixes what each separator of a match is: digits
\* only, '.' the decimal point and ',' the grouping separator, or, for the
\* EU thousands, ',' the decimal point and '.' the grouping separator
ShapedPatterns ==
  {"Percentages", "Temperature", "Thousand separators (US)", "Thousand separators (EU)",
   "Decimal numbers", "Large whole numbers", "Medium numbers"}

\* the numeric value of the text of a match m of a shaped pattern
MatchedValue(m) ==
  LET point  == IF patterns[m.pattern].name = "Thousand separators (EU)" THEN "," ELSE "."
      at     == {i \in 1..Len(m.text) : m.text[i] = point}
      split  == IF at = {} THEN Len(m.text) + 1 ELSE Min(at)
  IN  DecimalValue(FALSE,
                   KeepOnly(SubSeq(m.text, 1, split - 1), Digit),
                   KeepOnly(SubSeq(m.text, split + 1, Len(m.text)), Digit))

\* C12 (as stated): for every returned token, the numeric core the
\* validation parses is a finite value equal to the numeric value of the
\* matched text, for the comma-grouped and the dot-grouped format alike.
ParsedValueIsMatchedValue ==
  pc = "done" =>
    \A i \in 1..Len(output) :
      \A m \in AllMatches :
        (/\ patterns[m.pattern].name \in ShapedPatterns
         /\ IsKept(m)
         /\ TokenOf(m.text) = output[i])
        => /\ ParsesAsNumber(TestNumber(output[i]))
           /\ ParseFloat(TestNumber(output[i])) = MatchedValue(m)

-----------------------------------------------------------------------------
(* C13: the precedence of the pattern categories                           *)

\* the place of a pattern in the list currency, percentage, temperature,
\* parenthesized, signed, thousands-grouped, plain decimal, long whole,
\* short whole
CategoryRank(name) ==
  CASE name = "Currency"                 -> 1
    [] name = "Percentages"              -> 2
    [] name = "Temperature"              -> 3
    [] name = "Numbers in parentheses"   -> 4
    [] name = "Signed numbers"           -> 5
    [] name = "Thousand separators (US)" -> 6
    [] name = "Thousand separators (EU)" -> 6
    [] name = "Decimal numbers"          -> 7
    [] name = "Large whole numbers"      -> 8
    [] name = "Medium numbers"           -> 9

\* the matches that are kept
KeptMatches == {m \in AllMatches : IsKept(m)}

\* for each returned token, the best category among the patterns that
\* matched it
BestCategories ==
  LET kept == KeptMatches
  IN  [i \in 1..Len(output) |->
         Min({CategoryRank(patterns[m.pattern].name) :
                m \in {x \in kept : TokenOf(x.text) = output[i]}})]

\* for each returned token, the best priority class among the patterns that
\* matched it
BestClasses ==
  LET kept == KeptMatches
  IN  [i \in 1..Len(output) |->
         Min({patterns[m.pattern].priority :
                m \in {x \in kept : TokenOf(x.text) = output[i]}})]

-----------------------------------------------------------------------------
(* C14: isolated single digits                                             *)

Letter ==
  {"a", "b", "c", "d", "e", "f", "g", "h", "i", "j", "k", "l", "m",
   "n", "o", "p", "q", "r", "s", "t", "u", "v", "w", "x", "y", "z",
   "A", "B", "C", "D", "E", "F", "G", "H", "I", "J", "K", "L", "M",
   "N", "O", "P", "Q", "R", "S", "T", "U", "V", "W", "X", "Y", "Z"}

\* t has digits, and each is separated from the next one by letters or
\* whitespace, at least one
HasIsolatedDigitsOnly(t) ==
  /\ \E i \in 1..Len(t) : t[i] \in Digit
  /\ \A i, j \in 1..Len(t) :
       (/\ i < j
        /\ t[i] \in Digit
        /\ t[j] \in Digit
        /\ \A k \in (i + 1)..(j - 1) : t[k] \notin Digit)
       => /\ j > i + 1
          /\ \A k \in (i + 1)..(j - 1) : t[k] \in Letter \cup Whitespace

\* t has no currency symbol, '%', degree sign, sign or parenthesis
HasNoMark(t) ==
  \A k \in 1..Len(t) : t[k] \notin Symbol \cup {"+", "-", "(", ")"}

\* C14 (as amended): for a text whose only digits are isolated single
\* digits, each separated from any other digit by letters or whitespace, and
\* that holds no currency symbol, '%', degree sign, '+', '-', '(' or ')',
\* the returned list is empty.
IsolatedDigitsYieldNothing ==
  (pc = "done" /\ HasIsolatedDigitsOnly(text) /\ HasNoMark(text)) => output = <<>>

\* the call on 'a 1 b 2 c 3' has returned the empty list
IsolatedDigitsWitness ==
  /\ pc = "done"
  /\ text = TextSingleDigits
  /\ HasIsolatedDigitsOnly(text)
  /\ HasNoMark(text)
  /\ cleanText # <<>>
  /\ output = <<>>

\* C14 (as stated): for a text whose only digits are isolated single
\* digits, each separated from any other digit by letters or whitespace,
\* the returned list is empty.
IsolatedDigitsAlwaysYieldNothing ==
  (pc = "done" /\ HasIsolatedDigitsOnly(text)) => output = <<>>

-----------------------------------------------------------------------------
(* C15: texts without numbers                                              *)

\* C15: whatever the text, the call is at one of its steps or has returned
\* (it has not thrown); the call on an empty text, on a text of whitespace
\* only, or on a text none of whose matches is kept returns the empty list;
\* and no token is kept that fails the numeric validation.
NoCandidateYieldsEmpty ==
  /\ pc \in {"entry", "patterns", "matches", "sorted", "done"}
  /\ (pc = "done" /\ (Len(Trim(text)) = 0 \/ KeptMatches = {})) => output = <<>>
  /\ \A i \in 1..Len(foundNumbers) : IsValidNumber(foundNumbers[i].key)

\* a call whose text has matches, all of them dropped, has returned the
\* empty list
NoCandidateWitness ==
  /\ pc = "done"
  /\ Len(Trim(text)) # 0
  /\ AllMatches # {}
  /\ KeptMatches = {}
  /\ output = <<>>

-----------------------------------------------------------------------------
(* C16: a pattern that raises an error                                     *)

\* C16 (as stated): when the try block of a pattern raises an error, the
\* call still returns, and the tokens and priorities it has found are those
\* of the other patterns alone: the failing pattern has contributed
\* nothing.
FailingPatternContributesNothing ==
  /\ pc \in {"entry", "patterns", "matches", "sorted", "done"}
  /\ pc = "done" =>
       LET others == {m \in KeptMatches : m.pattern \notin failedPatterns}
       IN  /\ \A m \in others : HasKey(foundNumbers, TokenOf(m.text))
           /\ \A i \in 1..Len(foundNumbers) :
                LET from == {m \in others : TokenOf(m.text) = foundNumbers[i].key}
                IN  /\ from # {}
                    /\ foundNumbers[i].priority =
                         Min({patterns[m.pattern].priority : m \in from})

-----------------------------------------------------------------------------
(* C17: two calls on one text                                              *)

\* C17: two calls on the same text return the same list, in the same order,
\* whatever calls come before or between them.
SameTextSameOutput ==
  \A i, j \in 1..Len(history) :
    history[i].text = history[j].text => history[i].output = history[j].output

\* two calls on one text, a call on another text that returned other tokens
\* between them
SameTextWitness ==
  /\ Len(history) = 3
  /\ history[1].text = history[3].text
  /\ history[1].output # <<>>
  /\ history[2].output # <<>>
  /\ history[2].output # history[1].output
  /\ history[3].output = history[1].output

-----------------------------------------------------------------------------
(* C18: interleaved calls                                                  *)

\* the calls in progress or returned: the running one and the suspended ones
Frames == {CurrentFrame} \cup {suspended[k] : k \in 1..Len(suspended)}

\* C18: whatever the interleaving of the steps of two calls, each call that
\* has returned has returned what it returns when it runs alone.
InterleavedAsAlone ==
  \A frame \in Frames :
    frame.pc = "done" => frame.output = extractNumbersFromText(frame.text)

\* two calls on two texts have both returned tokens, the running one first
InterleavedWitness ==
  /\ suspended # <<>>
  /\ \A frame \in Frames : frame.pc = "done" /\ frame.output # <<>>
  /\ suspended[1].text # text
  /\ Len(history) = 2
  /\ history[1].text = text

-----------------------------------------------------------------------------
(* C19: numbers in parentheses                                             *)

\* s starts with '(' and ends with ')'
IsParenthesized(s) == Len(s) >= 1 /\ s[1] = "(" /\ s[Len(s)] = ")"

\* C19: when the call returns, every match of the parenthesized-number
\* pattern is stored, under what stands between its parentheses, trimmed;
\* and no stored or returned token starts with '(' and ends with ')'.
ParenthesesStripped ==
  /\ pc = "done" =>
       \A m \in AllMatches :
         patterns[m.pattern].name = "Numbers in parentheses"
         => /\ IsParenthesized(m.text)
            /\ HasKey(foundNumbers, Trim(SubSeq(m.text, 2, Len(m.text) - 1)))
  /\ \A i \in 1..Len(foundNumbers) : ~IsParenthesized(foundNumbers[i].key)
  /\ \A i \in 1..Len(output) : ~IsParenthesized(output[i])

\* '1.234 (42)': the match '(42)' is returned as '42', with the priority of
\* the parenthesized-number pattern
ParenthesesWitness ==
  /\ pc = "done"
  /\ text = TextSharedTokens
  /\ \E m \in AllMatches :
       /\ patterns[m.pattern].name = "Numbers in parentheses"
       /\ Trim(SubSeq(m.text, 2, Len(m.text) - 1)) = Token42
  /\ GetPriority(foundNumbers, Token42) = 2
  /\ PositionsOf(output, Token42) # {}

-----------------------------------------------------------------------------
(* C20: the text taken from a response                                     *)

\* annotations.map(annotation => annotation.description).join(' '): an
\* absent description joins as ''
RECURSIVE JoinDescriptions(_)
JoinDescriptions(annotations) ==
  IF annotations = <<>> THEN ""
  ELSE LET first == IF IsSome(annotations[1].description)
                    THEN ValueOf(annotations[1].description) ELSE ""
       IN  IF Len(annotations) = 1 THEN first
           ELSE first \o " " \o JoinDescriptions(Tail(annotations))

\* the text the README gives for a response: fullTextAnnotation.text, or
\* else textAnnotations[0].description, or else the descriptions of the
\* remaining annotations joined by spaces, or else null
DocumentedText(response) ==
  IF /\ IsSome(response.fullTextAnnotation)
     /\ IsTruthyText(ValueOf(response.fullTextAnnotation).text)
  THEN ValueOf(response.fullTextAnnotation).text
  ELSE IF ~IsSome(response.textAnnotations) THEN None
  ELSE LET annotations == ValueOf(response.textAnnotations)
       IN  IF Len(annotations) > 0 /\ IsTruthyText(annotations[1].description)
           THEN annotations[1].description
           ELSE LET joined == JoinDescriptions(SubSeq(annotations, 2, Len(annotations)))
                IN  IF joined = "" THEN None ELSE Some(joined)

\* C20 (as stated): for a response without error, the text returned is
\* fullTextAnnotation.text when present and not empty, or else
\* textAnnotations[0].description when present, or else the space-joined
\* descriptions of the remaining annotations, and null only when there are
\* none.
TextByPrecedence ==
  (/\ extractedText # Pending
   /\ IsSome(visionResponse.responses)
   /\ Len(ValueOf(visionResponse.responses)) > 0
   /\ ~IsSome(ValueOf(visionResponse.responses)[1].error))
  => extractedText = Returned(DocumentedText(ValueOf(visionResponse.responses)[1]))

-----------------------------------------------------------------------------
(* C21 *)

\* the message of the error the catch block of extractNumbersFromImage caught
CaughtMessage == ValueOf(error)

\* the message of the error extractNumbersFromImage threw
ThrownMessage == ValueOf(imageResult.value)

MentionsKey == Includes(CaughtMessage, "403") \/ Includes(CaughtMessage, "API key")

MentionsQuota == Includes(CaughtMessage, "429") \/ Includes(CaughtMessage, "quota")

MentionsFormat == Includes(CaughtMessage, "400")

MentionsNetwork ==
  Includes(CaughtMessage, "network") \/ Includes(CaughtMessage, "Failed to fetch")

\* C21: every failure inside extractNumbersFromImage is rethrown after
\* classification by its message, tested in this order: '403' or 'API key'
\* gives the invalid-API-key error; else '429' or 'quota' the quota-exceeded
\* error; else '400' the invalid-image-format error; else 'network' or
\* 'Failed to fetch' the network error; otherwise the original error is
\* rethrown unchanged. The function never returns a value after a failure.
FailureClassified ==
  IsSome(error) =>
    /\ imageResult.outcome # "returned"
    /\ imagePc = "done" =>
         /\ imageResult.outcome = "thrown"
         /\ MentionsKey => ThrownMessage = InvalidApiKey
         /\ (~MentionsKey /\ MentionsQuota) => ThrownMessage = QuotaExceeded
         /\ (~MentionsKey /\ ~MentionsQuota /\ MentionsFormat)
              => ThrownMessage = InvalidImageFormat
         /\ (~MentionsKey /\ ~MentionsQuota /\ ~MentionsFormat /\ MentionsNetwork)
              => ThrownMessage = NetworkError
         /\ (~MentionsKey /\ ~MentionsQuota /\ ~MentionsFormat /\ ~MentionsNetwork)
              => ThrownMessage = CaughtMessage

\* a failure whose message mentions both 429 and 403 has been rethrown as
\* the invalid-API-key error
FailureClassifiedWitness ==
  /\ imagePc = "done"
  /\ IsSome(error)
  /\ MentionsKey
  /\ MentionsQuota
  /\ imageResult = Thrown(InvalidApiKey)

-----------------------------------------------------------------------------
(* C22 *)

\* the crop rectangle handed to manipulateAsync
CropRectangle == ValueOf(manipulation).manipulations[1].crop

\* C22 (as stated): bounds with width <= 0 or height <= 0 are rejected with
\* 'Failed to crop image: Invalid crop bounds' without calling the
\* manipulator, and whenever the manipulator is called the crop rectangle
\* has integer originX >= 0, originY >= 0, width >= 1 and height >= 1.
CropValidated ==
  /\ (cropBounds.width <= 0 \/ cropBounds.height <= 0) =>
       /\ manipulation = None
       /\ cropResult \in {Pending, Thrown("Failed to crop image: Invalid crop bounds")}
  /\ IsSome(manipulation) =>
       /\ \A side \in {"originX", "originY", "width", "height"} :
            CropRectangle[side] % Scale = 0
       /\ CropRectangle.originX >= 0
       /\ CropRectangle.originY >= 0
       /\ CropRectangle.width >= Pixels(1)
       /\ CropRectangle.height >= Pixels(1)

-----------------------------------------------------------------------------
(* C23 *)

\* the calls that have returned after a reading that did not fail
CleanCalls(op) ==
  {k \in 1..Len(calls) : calls[k].op = op /\ calls[k].pc = "returned" /\ ~calls[k].readFailed}

\* every call has returned, no reading failed, and the ids of the saved
\* results differ
AllCallsClean ==
  /\ calls # <<>>
  /\ CleanCalls("save") \cup CleanCalls("delete") = 1..Len(calls)
  /\ \A j, k \in CleanCalls("save") : j # k => calls[j].scanId # calls[k].scanId

\* C23 (as stated): storage updates are not lost under interleaving: after
\* the calls of saveScanResult and deleteScanResult have completed, every
\* saved result is present in storage and every deleted id is absent.
NoLostUpdate ==
  AllCallsClean =>
    /\ \A k \in CleanCalls("save") :
         (\A d \in CleanCalls("delete") : calls[d].scanId # calls[k].scanId)
           => \E i \in 1..Len(StoredResults) : StoredResults[i] = ValueOf(calls[k].scanResult)
    /\ \A d \in CleanCalls("delete") : calls[d].scanId \notin StoredIds

-----------------------------------------------------------------------------
(* C24 *)

\* C24 (as stated): a successful saveScanResult never removes previously
\* stored results: with no other call under way, the stored list after the
\* call is the new result followed by the results stored before the call,
\* in their order, also when reading or parsing the stored list failed.
SavePrepends ==
  (/\ Len(calls) = 1
   /\ calls[1].op = "save"
   /\ calls[1].pc = "returned")
  => StoredResults = <<ValueOf(calls[1].scanResult)>> \o calls[1].storedAtEntry

-----------------------------------------------------------------------------
(* C25 *)

\* C25 (as stated): after any sequence of saveScanResult calls, the stored
\* scan results have pairwise distinct ids.
DistinctIds ==
  (\A k \in 1..Len(calls) : calls[k].op = "save")
  => \A i, j \in 1..Len(StoredResults) :
       i # j => StoredResults[i].id # StoredResults[j].id

-----------------------------------------------------------------------------
(* C26 *)

\* C26 (as stated): at most one capture-and-process pipeline is in flight
\* at any time, a second tap arriving before the isProcessing update is
\* rendered included.
AtMostOneInFlight == Cardinality(InFlight) <= 1

-----------------------------------------------------------------------------
(* C27 *)

\* C27: every captureAndProcess pipeline that sets isProcessing to true
\* eventually sets it back to false, on every outcome, provided each
\* awaited step eventually resolves or rejects.
ProcessingReset ==
  \A k \in 1..MaxTaps :
    (Len(invocations) >= k /\ invocations[k].pc \in {"capture", "crop", "ocr", "save"})
      ~> (Len(invocations) >= k /\ invocations[k].pc = "done" /\ invocations[k].reset)

\* two pipelines have ended and set isProcessing back to false, one after
\* a save and the navigation, one after a failure
ProcessingResetWitness ==
  /\ ~isProcessing
  /\ \E j, k \in 1..Len(invocations) :
       /\ invocations[j].pc = "done" /\ invocations[j].reset /\ invocations[j].pushed
       /\ invocations[k].pc = "done" /\ invocations[k].reset
       /\ invocations[k].alert = Some("Processing Error")

-----------------------------------------------------------------------------
(* C28 *)

\* the OCR of an invocation found no numbers in the text
FoundNoNumbers(invocation) ==
  /\ invocation.ocr.outcome = "thrown"
  /\ ValueOf(invocation.ocr.value) = "No numbers found in the detected text"

\* C28: a scan with an empty number list is never persisted by the capture
\* flow: extractNumbersFromImage returns a non-empty list or throws, so
\* saveScanResult is called with at least one number, the 'No Numbers
\* Found' branch is never taken, and an image without numbers ends in the
\* 'Processing Error' path.
NoEmptyScanSaved ==
  \A k \in 1..Len(invocations) :
    LET invocation == invocations[k]
    IN  /\ invocation.ocr.outcome = "returned" => Len(invocation.ocr.value) >= 1
        /\ IsSome(invocation.saved) => Len(ValueOf(invocation.saved)) >= 1
        /\ invocation.alert # Some("No Numbers Found")
        /\ FoundNoNumbers(invocation) =>
             /\ invocation.pc = "done"
             /\ invocation.alert = Some("Processing Error")
             /\ invocation.saved = None
             /\ ~invocation.pushed

\* the OCR of an invocation found no numbers and the invocation ended in
\* the 'Processing Error' path, and another invocation saved its numbers
NoEmptyScanWitness ==
  \E j, k \in 1..Len(invocations) :
    /\ FoundNoNumbers(invocations[j])
    /\ invocations[j].alert = Some("Processing Error")
    /\ IsSome(invocations[k].saved)
    /\ invocations[k].pushed

-----------------------------------------------------------------------------
(* C29 *)

\* fetch resolved with a response that is not OK
ResponseNotOk ==
  /\ IsSome(fetched)
  /\ ValueOf(fetched).outcome = "returned"
  /\ ~Ok(ValueOf(fetched).value)

-----------------------------------------------------------------------------
(* C30 *)

\* C30 (as stated): every token returned by extractNumbersFromText occurs
\* as a contiguous substring of the original input text, also when letters
\* or several whitespace characters stand between a symbol and its digits.
TokensOccurInText ==
  pc = "done" => \A i \in 1..Len(output) : IndexOf(text, output[i]) # -1

====
